---- MODULE Spec2Model ----
(***************************************************************************)
(* CS2 demo analyzer: team identification, round side attribution, the     *)
(* strategy feature matrix, clustering, the merge of cluster labels back   *)
(* onto the multi-match round table, the analysis of the clusters, the     *)
(* bombsite and per-side statistics, and the parallel batch processing.    *)
(*                                                                         *)
(* Each component has its own specification:                               *)
(*   SpecTeam     src/team_identification.py  identify_all_teams,          *)
(*                                            identify_common_team        *)
(*   SpecSide, SpecSideTrio                                                *)
(*                src/team_identification.py  determine_team_side_for_round*)
(*   SpecFeatures src/strats/features.py      build_feature_matrix         *)
(*   SpecCluster  src/strats/clustering.py    cluster_strategies           *)
(*   SpecDiscover src/strats/clustering.py    discover_strategies          *)
(*   SpecAnalyze  src/strats/analysis.py      analyze_strategy_clusters    *)
(*   SpecHits     src/analysis.py             analyze_bombsite_hits        *)
(*   SpecSides    src/analyzers/t_side.py     analyze_t_side,              *)
(*                src/analyzers/ct_side.py    analyze_ct_side              *)
(*   SpecBatch    src/batch.py                process_demos_batch: one     *)
(*                action per step of the pool and of the collecting loop   *)
(* The inputs of a function are drawn in the initial state; one action per *)
(* function applies it and stores what it returns.                         *)
(***************************************************************************)
EXTENDS Integers, Sequences, FiniteSets, TLC

VARIABLES
    \* ---- team identification
    demo_paths,     \* the demo list: <<[path, ok, T, CT]>>, first-round rosters
    min_players,    \* argument min_players
    min_demos,      \* argument min_demos
    all_teams,      \* what identify_all_teams returned (a list of player sets)
    common_team,    \* what identify_common_team returned (a player set)
    team_pc,        \* which of the two functions have returned
    \* ---- round side attribution
    demo_obj,       \* the parsed demo: [has_ticks, cols, ticks], ticks a list of rows
    team_players,   \* the target team, a set of player names
    round_num,      \* the round asked for
    enum_order,     \* the order in which the call iterated over team_players
    side_result,    \* what determine_team_side_for_round returned, or the exception
    side_pc,        \* "idle", "ready" or "done"
    \* ---- strategy discovery
    rounds_df,      \* the round table: [has_match_file, rows]
    kills_df,       \* the kill table, a list of rows
    side,           \* the side to analyse, 'T' or 'CT'
    features_df,    \* the feature table with its strategy_cluster column
    discovered,     \* what discover_strategies returned: [error, has_cluster, rows]
    disc_pc,        \* "idle", "ready" or "done"
    \* ---- feature extraction
    batch,          \* the arguments of build_feature_matrix:
                    \* [rounds, positions, utility, kills, side]
    matrix,         \* what build_feature_matrix returned, or the exception
    feat_pc,        \* "idle", "ready" or "done"
    \* ---- clustering
    clus_args,      \* the arguments of cluster_strategies:
                    \* [features_df, eps, min_samples], eps a fraction
    clus_result,       \* the labels cluster_strategies returned
    clus_pc,        \* "idle", "ready" or "done"
    \* ---- cluster analysis
    ana_args,       \* the arguments of analyze_strategy_clusters:
                    \* [rounds_df, has_cluster, side]
    analysis,       \* the dictionary analyze_strategy_clusters returned
    ana_pc,         \* "idle", "ready" or "done"
    \* ---- bombsite hits
    hits_args,      \* the round table given to analyze_bombsite_hits
    hits_result,    \* the dictionary analyze_bombsite_hits returned, or the exception
    hits_pc,        \* "idle", "ready" or "done"
    \* ---- batch processing
    job,            \* the call of process_demos_batch: [demos, validate_map,
                    \* target_map, max_workers, cpus]
    pool,           \* per demo: "pending", "running", "finished" or "collected"
    results,        \* the list results, in the order as_completed gave the futures
    consolidated,   \* what process_demos_batch returned
    proc_pc,        \* "idle", "pool" (inside the with block) or "done"
    \* ---- side analysis
    side_stats,     \* what analyze_t_side / analyze_ct_side returned for batch
    stats_pc        \* "idle", "ready" or "done"

team_vars == <<demo_paths, min_players, min_demos, all_teams, common_team, team_pc>>
side_vars == <<demo_obj, team_players, round_num, enum_order, side_result, side_pc>>

disc_vars == <<rounds_df, kills_df, side, features_df, discovered, disc_pc>>

feat_vars == <<batch, matrix, feat_pc>>

clus_vars == <<clus_args, clus_result, clus_pc>>

ana_vars == <<ana_args, analysis, ana_pc>>

hits_vars == <<hits_args, hits_result, hits_pc>>

proc_vars == <<job, pool, results, consolidated, proc_pc>>

stats_vars == <<side_stats, stats_pc>>

vars == <<team_vars, side_vars, disc_vars, feat_vars, clus_vars, ana_vars,
          hits_vars, proc_vars, stats_vars>>

(***************************************************************************)
(* Bounds                                                                  *)
(***************************************************************************)
MaxDemos == 3
MaxTicks == 3
MaxRounds == 3

(***************************************************************************)
(* Helpers                                                                 *)
(***************************************************************************)
Range(s) == {s[i] : i \in 1..Len(s)}

\* s reordered by the bijection p on 1..Len(s)
PermuteSeq(s, p) == [i \in 1..Len(s) |-> s[p[i]]]

(***************************************************************************)
(* Team identification: inputs                                             *)
(***************************************************************************)
\* Roster snapshots seen in the first round of a demo (player names).
ABCDE == {"A", "B", "C", "D", "E"}
ABCDF == {"A", "B", "C", "D", "F"}
ABCFG == {"A", "B", "C", "F", "G"}
ABCD  == {"A", "B", "C", "D"}
ABC   == {"A", "B", "C"}
VWXYZ == {"V", "W", "X", "Y", "Z"}
STUVW == {"S", "T", "U", "V", "W"}
QRSTU == {"Q", "R", "S", "T", "U"}
VWXY  == {"V", "W", "X", "Y"}

\* What one demo file yields: whether it exists and parses, and the set of
\* players on each side in round 1 (a player is on one side only).
DemoKinds ==
    { [ok |-> TRUE,  T |-> ABCDE, CT |-> VWXYZ],
      [ok |-> TRUE,  T |-> STUVW, CT |-> ABCDE],
      [ok |-> TRUE,  T |-> ABCDF, CT |-> QRSTU],
      [ok |-> TRUE,  T |-> ABCDF, CT |-> VWXYZ],
      [ok |-> TRUE,  T |-> ABCFG, CT |-> STUVW],
      [ok |-> TRUE,  T |-> VWXYZ, CT |-> ABCFG],
      [ok |-> TRUE,  T |-> ABCD,  CT |-> VWXY],
      [ok |-> TRUE,  T |-> ABC,   CT |-> VWXYZ],
      [ok |-> TRUE,  T |-> ABCDE, CT |-> {}],
      [ok |-> FALSE, T |-> {},    CT |-> {}] }

MinPlayersChoices == {3, 4, 5}
MinDemosChoices == {1, 2, 3}

\* demo_paths is sorted(glob("*.dem")): distinct paths, here the positions.
WithPaths(kinds) ==
    [i \in 1..Len(kinds) |->
        [path |-> i, ok |-> kinds[i].ok, T |-> kinds[i].T, CT |-> kinds[i].CT]]

(***************************************************************************)
(* identify_all_teams                                                      *)
(***************************************************************************)
\* The loop over demo_paths that fills team_compositions_per_demo: a demo
\* that does not exist or does not parse adds nothing; the T roster is
\* appended before the CT roster, each only if it has min_players players.
RECURSIVE TeamCompositions(_, _, _)
TeamCompositions(demos, k, mp) ==
    IF k > Len(demos) THEN <<>>
    ELSE LET d == demos[k]
             t  == IF d.ok /\ Cardinality(d.T) >= mp
                   THEN <<[demo |-> d.path, team |-> d.T]>> ELSE <<>>
             ct == IF d.ok /\ Cardinality(d.CT) >= mp
                   THEN <<[demo |-> d.path, team |-> d.CT]>> ELSE <<>>
         IN  t \o ct \o TeamCompositions(demos, k + 1, mp)

\* The snapshots j > i, not yet used, that join the group started by i:
\* the overlap is taken with comp_i['team'], the snapshot that started it.
SimilarTeams(comps, i, used, mp) ==
    {j \in (i + 1)..Len(comps) :
        j \notin used /\ Cardinality(comps[i].team \cap comps[j].team) >= mp}

\* The outer loop: one team_group per snapshot not used by an earlier group.
RECURSIVE GroupTeams(_, _, _, _)
GroupTeams(comps, i, used, mp) ==
    IF i > Len(comps) THEN <<>>
    ELSE IF i \in used THEN GroupTeams(comps, i + 1, used, mp)
    ELSE LET members == {i} \cup SimilarTeams(comps, i, used, mp)
             group == [seed    |-> i,
                       members |-> members,
                       demos   |-> {comps[j].demo : j \in members}]
         IN  <<group>> \o GroupTeams(comps, i + 1, used \cup members, mp)

\* player_counts[player]: the number of the group's snapshots holding player
PlayerCount(comps, group, player) ==
    Cardinality({j \in group.members : player \in comps[j].team})

GroupPlayers(comps, group) == UNION {comps[j].team : j \in group.members}

\* threshold = len(demos) * 0.6 and count >= threshold, in integers
ConsistencyPct == 60

ConsistentPlayersHalf(comps, group) ==
    {p \in GroupPlayers(comps, group) :
        100 * PlayerCount(comps, group, p) >= 50 * Cardinality(group.demos)}

ConsistentPlayersAll(comps, group) ==
    {p \in GroupPlayers(comps, group) :
        PlayerCount(comps, group, p) >= Cardinality(group.demos)}

ConsistentPlayers(comps, group) ==
    {p \in GroupPlayers(comps, group) :
        100 * PlayerCount(comps, group, p) >= ConsistencyPct * Cardinality(group.demos)}

GroupIsTeamAnyDemos(comps, group, mp, md) ==
    Cardinality(ConsistentPlayers(comps, group)) >= mp

\* the two tests a team_group passes before it is appended to team_groups
GroupIsTeam(comps, group, mp, md) ==
    /\ Cardinality(group.demos) >= md
    /\ Cardinality(ConsistentPlayers(comps, group)) >= mp

RECURSIVE TeamsOfGroups(_, _, _, _, _)
TeamsOfGroups(comps, groups, k, mp, md) ==
    IF k > Len(groups) THEN <<>>
    ELSE (IF GroupIsTeam(comps, groups[k], mp, md)
          THEN <<ConsistentPlayers(comps, groups[k])>> ELSE <<>>)
         \o TeamsOfGroups(comps, groups, k + 1, mp, md)

IdentifyAllTeams(demos, mp, md) ==
    IF Len(demos) = 0 \/ Len(demos) < md THEN <<>>
    ELSE LET comps == TeamCompositions(demos, 1, mp)
         IN  TeamsOfGroups(comps, GroupTeams(comps, 1, {}, mp), 1, mp, md)

(***************************************************************************)
(* identify_common_team                                                    *)
(***************************************************************************)
\* a roster snapshot is kept when it has 4 players, whatever min_players is
SnapshotMin == 4

RECURSIVE CommonCompositions(_, _)
CommonCompositions(demos, k) ==
    IF k > Len(demos) THEN <<>>
    ELSE LET d == demos[k]
             t  == IF d.ok /\ Cardinality(d.T) >= SnapshotMin
                   THEN <<[demo |-> d.path, team |-> d.T]>> ELSE <<>>
             ct == IF d.ok /\ Cardinality(d.CT) >= SnapshotMin
                   THEN <<[demo |-> d.path, team |-> d.CT]>> ELSE <<>>
         IN  t \o ct \o CommonCompositions(demos, k + 1)

\* the snapshots j # i whose overlap with snapshot i has min_players players
Overlapping(comps, i, mp) ==
    {j \in 1..Len(comps) :
        j # i /\ Cardinality(comps[i].team \cap comps[j].team) >= mp}

\* total_overlap_players[player]
OverlapCount(comps, i, mp, player) ==
    Cardinality({j \in Overlapping(comps, i, mp) : player \in comps[j].team})

CommonPct == 60

\* team_overlap_scores[i]['consistent_players']; n is len(demo_paths)
CommonConsistent(comps, i, mp, n) ==
    {p \in comps[i].team :
        /\ OverlapCount(comps, i, mp, p) >= 1
        /\ 100 * OverlapCount(comps, i, mp, p) >= CommonPct * n}

\* the key of max(): (overlap_count, len(team)), compared lexicographically
ScoreLess(comps, mp, i, j) ==
    LET oi == Cardinality(Overlapping(comps, i, mp))
        oj == Cardinality(Overlapping(comps, j, mp))
    IN  \/ oi < oj
        \/ oi = oj /\ Cardinality(comps[i].team) < Cardinality(comps[j].team)

\* max() returns the first element with the greatest key
BestTeam(comps, mp) ==
    CHOOSE i \in 1..Len(comps) :
        /\ \A j \in 1..Len(comps) : ~ScoreLess(comps, mp, i, j)
        /\ \A j \in 1..(i - 1) : ScoreLess(comps, mp, j, i)

CommonResultUnchecked(consistent, team, mp) ==
    IF consistent # {} /\ Cardinality(consistent) >= mp THEN consistent
    ELSE team

CommonResultTeamFirst(consistent, team, mp) ==
    IF Cardinality(team) >= mp THEN team
    ELSE IF consistent # {} /\ Cardinality(consistent) >= mp THEN consistent
    ELSE {}

\* the return statements after best_team is chosen
CommonResult(consistent, team, mp) ==
    IF consistent # {} /\ Cardinality(consistent) >= mp THEN consistent
    ELSE IF Cardinality(team) >= mp THEN team
    ELSE {}

IdentifyCommonTeam(demos, mp) ==
    IF Len(demos) = 0 THEN {}
    ELSE LET comps == CommonCompositions(demos, 1)
         IN  IF Len(comps) = 0 THEN {}
             ELSE LET b == BestTeam(comps, mp)
                  IN  CommonResult(CommonConsistent(comps, b, mp, Len(demos)),
                                   comps[b].team, mp)

(***************************************************************************)
(* Team identification: the state machine                                  *)
(***************************************************************************)
TeamIdle ==
    /\ demo_paths = <<>>
    /\ min_players = 0
    /\ min_demos = 0
    /\ all_teams = <<>>
    /\ common_team = {}
    /\ team_pc = {"idle"}

TeamStart ==
    /\ \E n \in 0..MaxDemos :
          \E kinds \in [1..n -> DemoKinds] : demo_paths = WithPaths(kinds)
    /\ min_players \in MinPlayersChoices
    /\ min_demos \in MinDemosChoices
    /\ all_teams = <<>>
    /\ common_team = {}
    /\ team_pc = {}

\* identify_all_teams(demo_paths, min_players, min_demos)
CallIdentifyAllTeams ==
    /\ "idle" \notin team_pc
    /\ "all" \notin team_pc
    /\ all_teams' = IdentifyAllTeams(demo_paths, min_players, min_demos)
    /\ team_pc' = team_pc \cup {"all"}
    /\ UNCHANGED <<demo_paths, min_players, min_demos, common_team>>
    /\ UNCHANGED <<side_vars, disc_vars, feat_vars, clus_vars, ana_vars,
                   hits_vars, proc_vars, stats_vars>>

\* identify_common_team(demo_paths, min_players)
CallIdentifyCommonTeam ==
    /\ "idle" \notin team_pc
    /\ "common" \notin team_pc
    /\ common_team' = IdentifyCommonTeam(demo_paths, min_players)
    /\ team_pc' = team_pc \cup {"common"}
    /\ UNCHANGED <<demo_paths, min_players, min_demos, all_teams>>
    /\ UNCHANGED <<side_vars, disc_vars, feat_vars, clus_vars, ana_vars,
                   hits_vars, proc_vars, stats_vars>>

(***************************************************************************)
(* determine_team_side_for_round: inputs                                   *)
(***************************************************************************)
NA == "NA"              \* a missing value of the side column
Absent == "-"           \* the field of a column the tick table does not have
NoRound == 0            \* the same for the round_num column

TickRoundNums == {1, 2}
TickNames == {"a", "b"}
\* what the decoder writes in the side column, in either case, or nothing
TickSides == {"T", "ct", "spectator", NA}
TeamChoices == {{"a", "b"}, {"a"}, {}}
AllCols == {"round_num", "name", "side"}
ColChoices == {AllCols} \cup {AllCols \ {c} : c \in AllCols}

TickRows(cols) ==
    [round_num : IF "round_num" \in cols THEN TickRoundNums ELSE {NoRound},
     name      : IF "name" \in cols THEN TickNames ELSE {Absent},
     side      : IF "side" \in cols THEN TickSides ELSE {Absent}]

\* a demo object without the ticks attribute
NoTicks == [has_ticks |-> FALSE, cols |-> {}, ticks |-> <<>>]

\* the orders in which a set of players can be iterated
Orderings(S) ==
    {o \in [1..Cardinality(S) -> S] : \A i, j \in DOMAIN o : i # j => o[i] # o[j]}

(***************************************************************************)
(* determine_team_side_for_round                                           *)
(***************************************************************************)
\* str.upper() on the values of the side column
Upper(s) ==
    CASE s = "t" -> "T"
      [] s = "ct" -> "CT"
      [] s = "spectator" -> "SPECTATOR"
      [] OTHER -> s

\* ticks_df[ticks_df['round_num'] == round_num]
RoundTicks(ticks, r) == SelectSeq(ticks, LAMBDA row : row.round_num = r)

\* round_ticks[round_ticks['name'] == player]
PlayerTicks(round_ticks, player) ==
    SelectSeq(round_ticks, LAMBDA row : row.name = player)

\* player_ticks['side'].dropna().unique(): the first value is the first
\* non-missing side of the player's rows
DropNa(player_ticks) == SelectSeq(player_ticks, LAMBDA row : row.side # NA)

HasSide(cols, round_ticks, player) ==
    /\ Len(PlayerTicks(round_ticks, player)) > 0
    /\ "side" \in cols
    /\ Len(DropNa(PlayerTicks(round_ticks, player))) > 0

\* the values of the dict player_sides, in insertion order
PlayerSides(cols, round_ticks, order) ==
    LET seen == SelectSeq(order, LAMBDA p : HasSide(cols, round_ticks, p))
    IN  [i \in 1..Len(seen) |-> Upper(DropNa(PlayerTicks(round_ticks, seen[i]))[1].side)]

\* side_counts[side]
SideCount(player_sides, s) ==
    Cardinality({i \in 1..Len(player_sides) : player_sides[i] = s})

TeamSideLastOnTie(player_sides) ==
    LET t  == SideCount(player_sides, "T")
        ct == SideCount(player_sides, "CT")
    IN  IF t > ct THEN "T"
        ELSE IF ct > t THEN "CT"
        ELSE IF t = ct /\ t > 0 THEN player_sides[Len(player_sides)]
        ELSE "None"

\* the comparison of the two counts and the tie rule
TeamSide(player_sides) ==
    LET t  == SideCount(player_sides, "T")
        ct == SideCount(player_sides, "CT")
    IN  IF t > ct THEN "T"
        ELSE IF ct > t THEN "CT"
        ELSE IF t = ct /\ t > 0 THEN player_sides[1]
        ELSE "None"

\* The whole function; "KeyError" stands for the exception pandas raises
\* when a column that is indexed does not exist.
DetermineTeamSide(obj, r, order) ==
    IF ~obj.has_ticks THEN "None"
    ELSE IF "round_num" \notin obj.cols THEN "KeyError"
    ELSE LET round_ticks == RoundTicks(obj.ticks, r)
         IN  IF Len(round_ticks) = 0 THEN "None"
             ELSE IF Len(order) > 0 /\ "name" \notin obj.cols THEN "KeyError"
             ELSE LET player_sides == PlayerSides(obj.cols, round_ticks, order)
                  IN  IF Len(player_sides) = 0 THEN "None"
                      ELSE TeamSide(player_sides)

(***************************************************************************)
(* Round side attribution: the state machine                               *)
(***************************************************************************)
SideIdle ==
    /\ demo_obj = NoTicks
    /\ team_players = {}
    /\ round_num = 0
    /\ enum_order = <<>>
    /\ side_result = "None"
    /\ side_pc = "idle"

SideStart ==
    /\ \/ demo_obj = NoTicks
       \/ \E c \in ColChoices, n \in 0..MaxTicks :
             \E t \in [1..n -> TickRows(c)] :
                 demo_obj = [has_ticks |-> TRUE, cols |-> c, ticks |-> t]
    /\ team_players \in TeamChoices
    /\ round_num = 1
    /\ enum_order = <<>>
    /\ side_result = "None"
    /\ side_pc = "ready"

\* determine_team_side_for_round(demo_obj, round_num, team_players); the
\* iteration order of the set team_players is not fixed by the program
CallDetermineTeamSide ==
    /\ side_pc = "ready"
    /\ \E order \in Orderings(team_players) :
          /\ enum_order' = order
          /\ side_result' = DetermineTeamSide(demo_obj, round_num, order)
    /\ side_pc' = "done"
    /\ UNCHANGED <<demo_obj, team_players, round_num>>
    /\ UNCHANGED <<team_vars, disc_vars, feat_vars, clus_vars, ana_vars,
                   hits_vars, proc_vars, stats_vars>>

\* A round in which three team players are observed, one well-formed tick
\* row each, with any of the side values.
TrioNames == <<"a", "b", "c">>

TrioStart ==
    /\ \E sides \in [1..Len(TrioNames) -> TickSides] :
          demo_obj = [has_ticks |-> TRUE, cols |-> AllCols,
                      ticks |-> [i \in 1..Len(TrioNames) |->
                                    [round_num |-> 1, name |-> TrioNames[i],
                                     side |-> sides[i]]]]
    /\ team_players = Range(TrioNames)
    /\ round_num = 1
    /\ enum_order = <<>>
    /\ side_result = "None"
    /\ side_pc = "ready"

(***************************************************************************)
(* discover_strategies: inputs                                             *)
(***************************************************************************)
\* Every round of the combined tables comes from one demo file and has the
\* round number it had there: (match_file, round_num) is unique.
RoundKeys ==
    << [match_file |-> "m1.dem", round_num |-> 3],
       [match_file |-> "m1.dem", round_num |-> 4],
       [match_file |-> "m2.dem", round_num |-> 3],
       [match_file |-> "m2.dem", round_num |-> 4] >>

\* the side column of a round: the side of the target team, or missing
RoundSides == {"T", "CT", NA}

\* the kills of one round: attacker side and seconds into the round
KillProfiles ==
    { <<>>,
      <<[attacker_side |-> "T", seconds_into_round |-> 10]>>,
      <<[attacker_side |-> "T", seconds_into_round |-> 40]>>,
      <<[attacker_side |-> "CT", seconds_into_round |-> 10]>> }

\* the rounds chosen among RoundKeys: at most MaxRounds of them
RoundSubsets == {P \in SUBSET (1..Len(RoundKeys)) : Cardinality(P) <= MaxRounds}

RECURSIVE RoundRows(_, _)
RoundRows(choice, i) ==
    IF i > Len(RoundKeys) THEN <<>>
    ELSE (IF i \in DOMAIN choice
          THEN <<[match_file |-> RoundKeys[i].match_file,
                  round_num  |-> RoundKeys[i].round_num,
                  side       |-> choice[i].side]>>
          ELSE <<>>) \o RoundRows(choice, i + 1)

RECURSIVE KillRows(_, _)
KillRows(choice, i) ==
    IF i > Len(RoundKeys) THEN <<>>
    ELSE (IF i \in DOMAIN choice
          THEN [k \in 1..Len(choice[i].kills) |->
                   [match_file         |-> RoundKeys[i].match_file,
                    round_num          |-> RoundKeys[i].round_num,
                    attacker_side      |-> choice[i].kills[k].attacker_side,
                    seconds_into_round |-> choice[i].kills[k].seconds_into_round]]
          ELSE <<>>) \o KillRows(choice, i + 1)

(***************************************************************************)
(* extract_strategy_features, build_feature_matrix (positions_df and       *)
(* utility_df not given: their features are 0 for every round)             *)
(***************************************************************************)
MinOf(S) == CHOOSE x \in S : \A y \in S : x <= y

EarlyKillSeconds == 30

\* The two kill timing features of a round, from the kill rows handed over
\* by build_feature_matrix.
KillFeatures(r, kills, s) ==
    LET of_round == SelectSeq(kills, LAMBDA k : k.round_num = r)
        round_kills == SelectSeq(of_round, LAMBDA k : k.attacker_side = s)
    IN  IF Len(kills) = 0 \/ Len(round_kills) = 0
        THEN [first_kill_time |-> 0, kills_before_30s |-> 0]
        ELSE [first_kill_time |->
                  MinOf({round_kills[i].seconds_into_round : i \in 1..Len(round_kills)}),
              kills_before_30s |->
                  Len(SelectSeq(round_kills,
                                LAMBDA k : k.seconds_into_round <= EarlyKillSeconds))]

\* rounds_df[rounds_df['side'] == side] when the side column has data
FilteredRounds(rounds, s) ==
    LET has_side_data == \E i \in 1..Len(rounds.rows) : rounds.rows[i].side # NA
    IN  {i \in 1..Len(rounds.rows) : has_side_data => rounds.rows[i].side = s}

\* the kill rows passed for the round at row i of rounds_df
RoundKills(rounds, kills, i) ==
    IF rounds.has_match_file
    THEN SelectSeq(kills, LAMBDA k : /\ k.round_num = rounds.rows[i].round_num
                                     /\ k.match_file = rounds.rows[i].match_file)
    ELSE SelectSeq(kills, LAMBDA k : k.round_num = rounds.rows[i].round_num)

\* One row of the feature table: idx is the row of rounds_df it is built
\* for; match_file is set only when rounds_df has that column.
FeatureRow(rounds, kills, s, i) ==
    LET f == KillFeatures(rounds.rows[i].round_num, RoundKills(rounds, kills, i), s)
    IN  [idx              |-> i,
         round_num        |-> rounds.rows[i].round_num,
         match_file       |-> IF rounds.has_match_file
                              THEN rounds.rows[i].match_file ELSE Absent,
         first_kill_time  |-> f.first_kill_time,
         kills_before_30s |-> f.kills_before_30s]

RECURSIVE FeatureRows(_, _, _, _, _)
FeatureRows(rounds, kills, s, keep, i) ==
    IF i > Len(rounds.rows) THEN <<>>
    ELSE (IF i \in keep THEN <<FeatureRow(rounds, kills, s, i)>> ELSE <<>>)
         \o FeatureRows(rounds, kills, s, keep, i + 1)

BuildFeatureMatrix(rounds, kills, s) ==
    FeatureRows(rounds, kills, s, FilteredRounds(rounds, s), 1)

(***************************************************************************)
(* cluster_strategies: StandardScaler, then DBSCAN                         *)
(***************************************************************************)
\* eps = 0.5 as a fraction, and min_samples
EpsNum == 1
EpsDen == 2
MinSamples == 2

\* the columns that are not excluded and not constant in this model
FeatureCols(f) == <<f.first_kill_time, f.kills_before_30s>>
NumFeatureCols == 2

SumOver(n, F(_)) ==
    LET RECURSIVE Go(_)
        Go(i) == IF i = 0 THEN 0 ELSE F(i) + Go(i - 1)
    IN  Go(n)

\* n^2 times the variance of column c: 0 when the column is constant, and
\* the scaler then leaves the column's differences (all 0) as they are
ScaledVar(feats, c) ==
    LET n == Len(feats)
        X(i) == FeatureCols(feats[i])[c]
        XX(i) == X(i) * X(i)
    IN  n * SumOver(n, XX) - SumOver(n, X) * SumOver(n, X)

\* n^2 times the variance of every feature column
ScaledVars(feats) == [c \in 1..NumFeatureCols |-> ScaledVar(feats, c)]

\* The squared Euclidean distance of the standardized rows i and j, as the
\* fraction [num, den]: the sum over the columns of (xi - xj)^2 / variance;
\* v holds ScaledVars(feats).
RECURSIVE ScaledDist2(_, _, _, _, _)
ScaledDist2(feats, v, i, j, c) ==
    IF c = 0 THEN [num |-> 0, den |-> 1]
    ELSE LET rest == ScaledDist2(feats, v, i, j, c - 1)
             d == FeatureCols(feats[i])[c] - FeatureCols(feats[j])[c]
             n == Len(feats)
         IN  IF v[c] = 0 THEN rest
             ELSE [num |-> rest.num * v[c] + d * d * n * n * rest.den,
                   den |-> rest.den * v[c]]

\* the rows within eps of row i, row i among them; eps is a fraction
Neighbours(feats, v, i, eps) ==
    {j \in 1..Len(feats) :
        LET d2 == ScaledDist2(feats, v, i, j, NumFeatureCols)
        IN  d2.num * eps.den * eps.den <= eps.num * eps.num * d2.den}

\* nb[i] is the neighbourhood of row i
IsCoreStrict(nb, i, min_samples) == Cardinality(nb[i]) > min_samples

IsCore(nb, i, min_samples) == Cardinality(nb[i]) >= min_samples

Noise == -1

\* the rows one cluster takes: from its first core row, every row without a
\* label that is a neighbour of a core row of the cluster
RECURSIVE GrowCluster(_, _, _, _)
GrowCluster(nb, core, labels, members) ==
    LET more == members \cup
                {j \in DOMAIN nb :
                    /\ labels[j] = Noise
                    /\ \E u \in members \cap core : j \in nb[u]}
    IN  IF more = members THEN members ELSE GrowCluster(nb, core, labels, more)

\* DBSCAN's pass over the rows in order; label_num counts the clusters
RECURSIVE Dbscan(_, _, _, _, _)
Dbscan(nb, core, i, labels, label_num) ==
    IF i > Len(nb) THEN labels
    ELSE IF labels[i] # Noise \/ i \notin core
         THEN Dbscan(nb, core, i + 1, labels, label_num)
         ELSE LET members == GrowCluster(nb, core, labels, {i})
              IN  Dbscan(nb, core, i + 1,
                         [j \in 1..Len(nb) |->
                             IF j \in members THEN label_num ELSE labels[j]],
                         label_num + 1)

\* cluster_strategies(features_df, eps, min_samples): the labels
ClusterStrategies(feats, eps, min_samples) ==
    LET v == ScaledVars(feats)
        nb == [i \in 1..Len(feats) |-> Neighbours(feats, v, i, eps)]
        core == {i \in 1..Len(feats) : IsCore(nb, i, min_samples)}
    IN  Dbscan(nb, core, 1, [j \in 1..Len(feats) |-> Noise], 0)

(***************************************************************************)
(* discover_strategies                                                     *)
(***************************************************************************)
NoCluster == -2     \* pd.NA in the strategy_cluster column

\* features_df['strategy_cluster'] = clusters
WithClusters(feats, clusters) ==
    [f \in 1..Len(feats) |->
        [idx              |-> feats[f].idx,
         round_num        |-> feats[f].round_num,
         match_file       |-> feats[f].match_file,
         first_kill_time  |-> feats[f].first_kill_time,
         kills_before_30s |-> feats[f].kills_before_30s,
         strategy_cluster |-> clusters[f]]]

\* the feature rows whose label a round row can receive
KeyMatchesRoundOnly(row, f, has_match_file) == f.round_num = row.round_num

KeyMatches(row, f, has_match_file) ==
    IF has_match_file
    THEN f.round_num = row.round_num /\ f.match_file = row.match_file
    ELSE f.round_num = row.round_num

\* The label a round row ends with: both the loop over features_df and the
\* dict of the fallback leave the label of the last feature row that matches.
MergedLabel(row, feats, has_match_file) ==
    LET hits == {f \in 1..Len(feats) : KeyMatches(row, feats[f], has_match_file)}
    IN  IF hits = {} THEN NoCluster
        ELSE feats[CHOOSE f \in hits : \A g \in hits : g <= f].strategy_cluster

\* a row of the copy of rounds_df with its strategy_cluster value
WithLabel(row, label) ==
    [match_file |-> row.match_file, round_num |-> row.round_num,
     side |-> row.side, strategy_cluster |-> label]

DiscoverFeatures(rounds, kills, s) ==
    LET feats == BuildFeatureMatrix(rounds, kills, s)
    IN  WithClusters(feats, ClusterStrategies(feats, [num |-> EpsNum, den |-> EpsDen],
                                              MinSamples))

\* what is returned: rounds_df itself with an error when there is no feature
\* row, else a copy with the strategy_cluster column
DiscoverStrategies(rounds, kills, s) ==
    LET feats == DiscoverFeatures(rounds, kills, s)
    IN  IF Len(feats) = 0
        THEN [error |-> TRUE, has_cluster |-> FALSE,
              rows |-> [i \in 1..Len(rounds.rows) |-> WithLabel(rounds.rows[i], NoCluster)]]
        ELSE [error |-> FALSE, has_cluster |-> TRUE,
              rows |-> [i \in 1..Len(rounds.rows) |->
                           WithLabel(rounds.rows[i],
                                     MergedLabel(rounds.rows[i], feats,
                                                 rounds.has_match_file))]]

(***************************************************************************)
(* Strategy discovery: the state machine                                   *)
(***************************************************************************)
DiscIdle ==
    /\ rounds_df = [has_match_file |-> FALSE, rows |-> <<>>]
    /\ kills_df = <<>>
    /\ side = "T"
    /\ features_df = <<>>
    /\ discovered = [error |-> FALSE, has_cluster |-> FALSE, rows |-> <<>>]
    /\ disc_pc = "idle"

DiscStart ==
    /\ \E present \in RoundSubsets, has_match_file \in BOOLEAN :
        \E choice \in [present -> [side : RoundSides, kills : KillProfiles]] :
          /\ rounds_df = [has_match_file |-> has_match_file,
                          rows |-> RoundRows(choice, 1)]
          /\ kills_df = KillRows(choice, 1)
    /\ side \in {"T", "CT"}
    /\ features_df = <<>>
    /\ discovered = [error |-> FALSE, has_cluster |-> FALSE, rows |-> <<>>]
    /\ disc_pc = "ready"

\* discover_strategies(rounds_df, None, None, kills_df, side)
CallDiscoverStrategies ==
    /\ disc_pc = "ready"
    /\ features_df' = DiscoverFeatures(rounds_df, kills_df, side)
    /\ discovered' = DiscoverStrategies(rounds_df, kills_df, side)
    /\ disc_pc' = "done"
    /\ UNCHANGED <<rounds_df, kills_df, side>>
    /\ UNCHANGED <<team_vars, side_vars, feat_vars, clus_vars, ana_vars,
                   hits_vars, proc_vars, stats_vars>>

(***************************************************************************)
(* build_feature_matrix with positions, utility and kills: inputs          *)
(***************************************************************************)
\* the side of the grid in cells (GRID_SIZE, 10 in the source)
GridSize == 2

\* winner and bombsite of the rounds of RoundKeys
RoundFacts ==
    << [winner |-> "T",  bombsite |-> "bombsite_a"],
       [winner |-> "CT", bombsite |-> "not_planted"],
       [winner |-> "CT", bombsite |-> "bombsite_b"],
       [winner |-> "T",  bombsite |-> "not_planted"] >>

\* what the players did in one round: position samples, grenades, kills
EventProfiles ==
    { [positions |-> <<>>, utility |-> <<>>, kills |-> <<>>],
      [positions |-> <<[player_side |-> "T",  x |-> 0,    y |-> 0,    seconds_into_round |-> 0],
                       [player_side |-> "CT", x |-> 1000, y |-> 1000, seconds_into_round |-> 0],
                       [player_side |-> "T",  x |-> 600,  y |-> 200,  seconds_into_round |-> 20]>>,
       utility   |-> <<>>,
       kills     |-> <<[attacker_side |-> "T", seconds_into_round |-> 10]>>],
      [positions |-> <<[player_side |-> "T",  x |-> 0,    y |-> 0,    seconds_into_round |-> 50]>>,
       utility   |-> <<[thrower_side |-> "T",  grenade_type |-> "smoke", seconds_into_round |-> 5],
                       [thrower_side |-> "T",  grenade_type |-> "flash", seconds_into_round |-> 12],
                       [thrower_side |-> "CT", grenade_type |-> "he",    seconds_into_round |-> 3]>>,
       kills     |-> <<>>],
      [positions |-> <<[player_side |-> "CT", x |-> 1000, y |-> 400,  seconds_into_round |-> 15]>>,
       utility   |-> <<[thrower_side |-> "CT", grenade_type |-> "molotov", seconds_into_round |-> 20]>>,
       kills     |-> <<[attacker_side |-> "CT", seconds_into_round |-> 30]>>] }

\* How an event table reaches build_feature_matrix: "None" (argument not
\* given), "NoCols" (the pd.DataFrame() the loader passes when no demo gave
\* a row), "Plain" (the extractor's columns), "SideCol" (a positions table
\* whose side column is named side, not player_side).
TableShapes ==
    { [positions |-> "Plain",   utility |-> "Plain",  kills |-> "Plain"],
      [positions |-> "None",    utility |-> "Plain",  kills |-> "Plain"],
      [positions |-> "NoCols",  utility |-> "Plain",  kills |-> "Plain"],
      [positions |-> "SideCol", utility |-> "Plain",  kills |-> "Plain"],
      [positions |-> "Plain",   utility |-> "NoCols", kills |-> "Plain"],
      [positions |-> "Plain",   utility |-> "Plain",  kills |-> "NoCols"],
      [positions |-> "Plain",   utility |-> "None",   kills |-> "None"] }

\* the rows of one table: the rounds in the order of RoundKeys, every row with
\* the round_num and match_file of its round
RECURSIVE BatchRows(_, _, _)
BatchRows(choice, tbl, i) ==
    IF i > Len(RoundKeys) THEN <<>>
    ELSE (IF i \in DOMAIN choice
          THEN LET evs == IF tbl = "rounds"
                          THEN <<[side     |-> choice[i].side,
                                  winner   |-> RoundFacts[i].winner,
                                  bombsite |-> RoundFacts[i].bombsite]>>
                          ELSE choice[i].events[tbl]
               IN  [k \in 1..Len(evs) |->
                       [f \in DOMAIN evs[k] \cup {"round_num", "match_file"} |->
                           IF f = "round_num" THEN RoundKeys[i].round_num
                           ELSE IF f = "match_file" THEN RoundKeys[i].match_file
                           ELSE evs[k][f]]]
          ELSE <<>>) \o BatchRows(choice, tbl, i + 1)

\* a table of the given shape: no rows unless the shape has columns
EventTable(shape, rows) ==
    [shape |-> shape, rows |-> IF shape \in {"None", "NoCols"} THEN <<>> ELSE rows]

(***************************************************************************)
(* positions_to_grid, extract_strategy_features, build_feature_matrix      *)
(***************************************************************************)
MaxOf(S) == CHOOSE x \in S : \A y \in S : x >= y

NoBounds == [x_min |-> 0, x_max |-> 0, y_min |-> 0, y_max |-> 0]

\* min() - 100 and max() + 100 of the x and y columns
BoundsOf(rows) ==
    LET xs == {rows[k].x : k \in 1..Len(rows)}
        ys == {rows[k].y : k \in 1..Len(rows)}
    IN  [x_min |-> MinOf(xs) - 100, x_max |-> MaxOf(xs) + 100,
         y_min |-> MinOf(ys) - 100, y_max |-> MaxOf(ys) + 100]

\* map_bounds of build_feature_matrix; NoBounds stands for None
MapBounds(positions, s) ==
    LET pos_for_bounds ==
            IF positions.shape = "SideCol"
            THEN SelectSeq(positions.rows, LAMBDA p : p.player_side = s)
            ELSE positions.rows
    IN  IF Len(pos_for_bounds) = 0 THEN NoBounds ELSE BoundsOf(pos_for_bounds)

\* the bin of numpy's histogram for v in [lo, hi] cut in n bins; -1 outside
Bin(v, lo, hi, n) ==
    IF v < lo \/ v > hi THEN -1
    ELSE IF v = hi THEN n - 1
    ELSE ((v - lo) * n) \div (hi - lo)

\* positions_to_grid: the flattened histogram, cell ix * n + iy at index + 1
PositionsToGrid(rows, b, n) ==
    [c \in 1..(n * n) |->
        Cardinality({k \in 1..Len(rows) :
            /\ Bin(rows[k].x, b.x_min, b.x_max, n) >= 0
            /\ Bin(rows[k].y, b.y_min, b.y_max, n) >= 0
            /\ Bin(rows[k].x, b.x_min, b.x_max, n) * n
                 + Bin(rows[k].y, b.y_min, b.y_max, n) = c - 1})]

\* one entry of the features dict: the key (name, i) and the value v / d
Entry(name, i, v, d) == [name |-> name, i |-> i, v |-> v, d |-> d]

GridEntries(name, grid) ==
    [c \in 1..Len(grid) |-> Entry(name, c - 1, grid[c], 1)]

\* the three zero grids, written cell by cell: early_i, mid_i, late_i
RECURSIVE ZeroGrids(_, _)
ZeroGrids(c, cells) ==
    IF c >= cells THEN <<>>
    ELSE <<Entry("early_grid", c, 0, 1), Entry("mid_grid", c, 0, 1),
           Entry("late_grid", c, 0, 1)>> \o ZeroGrids(c + 1, cells)

\* The spatial part of extract_strategy_features: [entries, used], used being
\* the bounds the grids were cut with, NoBounds when nothing was rasterized.
SpatialFeatures(r, positions, s, map_bounds) ==
    LET of_round == SelectSeq(positions.rows, LAMBDA p : p.round_num = r)
        round_positions ==
            IF positions.shape = "Plain"
            THEN SelectSeq(of_round, LAMBDA p : p.player_side = s)
            ELSE of_round
        b == IF map_bounds # NoBounds THEN map_bounds ELSE BoundsOf(round_positions)
        early == SelectSeq(round_positions, LAMBDA p : p.seconds_into_round <= 15)
        mid == SelectSeq(round_positions, LAMBDA p : /\ p.seconds_into_round > 15
                                                      /\ p.seconds_into_round <= 45)
        late == SelectSeq(round_positions, LAMBDA p : p.seconds_into_round > 45)
    IN  IF Len(positions.rows) = 0 \/ Len(round_positions) = 0
        THEN [entries |-> ZeroGrids(0, GridSize * GridSize), used |-> NoBounds]
        ELSE [entries |-> GridEntries("early_grid", PositionsToGrid(early, b, GridSize))
                          \o GridEntries("mid_grid", PositionsToGrid(mid, b, GridSize))
                          \o GridEntries("late_grid", PositionsToGrid(late, b, GridSize)),
              used |-> b]

UtilityFeaturesNoTiming(r, utility, s) ==
    LET round_utility == SelectSeq(utility.rows, LAMBDA u : /\ u.round_num = r
                                                            /\ u.thrower_side = s)
        Count(type) == Len(SelectSeq(round_utility, LAMBDA u : u.grenade_type = type))
        times == {round_utility[k].seconds_into_round : k \in 1..Len(round_utility)}
    IN  IF Len(utility.rows) = 0 \/ Len(round_utility) = 0
        THEN <<Entry("smoke_count", -1, 0, 1), Entry("flash_count", -1, 0, 1),
               Entry("he_count", -1, 0, 1), Entry("molotov_count", -1, 0, 1)>>
        ELSE <<Entry("smoke_count", -1, Count("smoke"), 1),
               Entry("flash_count", -1, Count("flash"), 1),
               Entry("he_count", -1, Count("he"), 1),
               Entry("molotov_count", -1, Count("molotov"), 1),
               Entry("utility_avg_time", -1,
                     SumOver(Len(round_utility),
                             LAMBDA k : round_utility[k].seconds_into_round),
                     Len(round_utility)),
               Entry("utility_first_time", -1, MinOf(times), 1)>>

\* the utility part: counts by grenade type, mean and minimum of the time
UtilityFeatures(r, utility, s) ==
    LET round_utility == SelectSeq(utility.rows, LAMBDA u : /\ u.round_num = r
                                                            /\ u.thrower_side = s)
        Count(type) == Len(SelectSeq(round_utility, LAMBDA u : u.grenade_type = type))
        times == {round_utility[k].seconds_into_round : k \in 1..Len(round_utility)}
    IN  IF Len(utility.rows) = 0 \/ Len(round_utility) = 0
        THEN <<Entry("smoke_count", -1, 0, 1), Entry("flash_count", -1, 0, 1),
               Entry("he_count", -1, 0, 1), Entry("molotov_count", -1, 0, 1),
               Entry("utility_avg_time", -1, 0, 1),
               Entry("utility_first_time", -1, 0, 1)>>
        ELSE <<Entry("smoke_count", -1, Count("smoke"), 1),
               Entry("flash_count", -1, Count("flash"), 1),
               Entry("he_count", -1, Count("he"), 1),
               Entry("molotov_count", -1, Count("molotov"), 1),
               Entry("utility_avg_time", -1,
                     SumOver(Len(round_utility),
                             LAMBDA k : round_utility[k].seconds_into_round),
                     Len(round_utility)),
               Entry("utility_first_time", -1, MinOf(times), 1)>>

\* extract_strategy_features for a round that is in the round table (row
\* round_info); the tables hold the rows build_feature_matrix selected.
\* The result is the dict in insertion order and the bounds of its grids.
ExtractStrategyFeatures(round_info, positions, utility, kills, s, map_bounds) ==
    LET r == round_info.round_num
        spatial == SpatialFeatures(r, positions, s, map_bounds)
        k == KillFeatures(r, kills.rows, s)
        won == IF round_info.side # NA
               THEN (IF round_info.side = round_info.winner THEN 1 ELSE 0)
               ELSE (IF s = round_info.winner THEN 1 ELSE 0)
    IN  [entries |->
            <<Entry("round_num", -1, r, 1),
              Entry("bombsite", -1,
                    IF round_info.bombsite = "bombsite_a" THEN 1
                    ELSE IF round_info.bombsite = "bombsite_b" THEN 2 ELSE 0, 1),
              Entry("won", -1, won, 1)>>
            \o spatial.entries
            \o UtilityFeatures(r, utility, s)
            \o <<Entry("first_kill_time", -1, k.first_kill_time, 1),
                 Entry("kills_before_30s", -1, k.kills_before_30s, 1)>>,
         used |-> spatial.used]

\* the rows of an event table handed over for one round of one demo
RoundEvents(tbl, round_row) ==
    [shape |-> tbl.shape,
     rows  |-> SelectSeq(tbl.rows, LAMBDA e : /\ e.round_num = round_row.round_num
                                              /\ e.match_file = round_row.match_file)]

\* the keys of the dicts in the order of their first appearance: the
\* columns of pd.DataFrame(features_list)
RECURSIVE FrameColumns(_, _, _)
FrameColumns(dicts, k, cols) ==
    IF k > Len(dicts) THEN cols
    ELSE LET keys == [e \in 1..Len(dicts[k].entries) |->
                         [name |-> dicts[k].entries[e].name, i |-> dicts[k].entries[e].i]]
             fresh == SelectSeq(keys, LAMBDA key : key \notin Range(cols))
         IN  FrameColumns(dicts, k + 1, cols \o fresh)

\* build_feature_matrix(rounds_df, positions_df, utility_df, kills_df, side):
\* an empty frame, the KeyError of indexing round_num in a table without
\* columns, or the frame of the dicts of the filtered rounds
BuildFeatureFrame(b) ==
    LET has_side_data == \E i \in 1..Len(b.rounds) : b.rounds[i].side # NA
        filtered_rounds ==
            SelectSeq(b.rounds, LAMBDA row : has_side_data => row.side = b.side)
        map_bounds == MapBounds(b.positions, b.side)
        dicts == [k \in 1..Len(filtered_rounds) |->
                     LET d == ExtractStrategyFeatures(
                                  filtered_rounds[k],
                                  RoundEvents(b.positions, filtered_rounds[k]),
                                  RoundEvents(b.utility, filtered_rounds[k]),
                                  RoundEvents(b.kills, filtered_rounds[k]),
                                  b.side, map_bounds)
                     IN  [round_num  |-> filtered_rounds[k].round_num,
                          match_file |-> filtered_rounds[k].match_file,
                          entries    |-> d.entries,
                          used       |-> d.used]]
    IN  IF Len(filtered_rounds) = 0
        THEN [error |-> "none", dicts |-> <<>>, columns |-> <<>>]
        ELSE IF "NoCols" \in {b.positions.shape, b.utility.shape, b.kills.shape}
        THEN [error |-> "KeyError", dicts |-> <<>>, columns |-> <<>>]
        ELSE [error |-> "none", dicts |-> dicts,
              columns |-> FrameColumns(dicts, 1, <<>>)]

(***************************************************************************)
(* Feature extraction: the state machine                                   *)
(***************************************************************************)
NoTable == [shape |-> "None", rows |-> <<>>]

FeatIdle ==
    /\ batch = [rounds |-> <<>>, positions |-> NoTable, utility |-> NoTable,
                kills |-> NoTable, side |-> "T"]
    /\ matrix = [error |-> "none", dicts |-> <<>>, columns |-> <<>>]
    /\ feat_pc = "idle"

\* the tables of at most MaxRounds rounds; with team_mode the side column of
\* the round table holds the team's side, else it is missing in every row
FeatStart ==
    /\ \E present \in RoundSubsets, shapes \in TableShapes,
          team_mode \in BOOLEAN, s \in {"T", "CT"} :
        \E choice \in [present -> [side   : IF team_mode THEN {"T", "CT"} ELSE {NA},
                                   events : EventProfiles]] :
            batch = [rounds    |-> BatchRows(choice, "rounds", 1),
                     positions |-> EventTable(shapes.positions,
                                              BatchRows(choice, "positions", 1)),
                     utility   |-> EventTable(shapes.utility,
                                              BatchRows(choice, "utility", 1)),
                     kills     |-> EventTable(shapes.kills,
                                              BatchRows(choice, "kills", 1)),
                     side      |-> s]
    /\ matrix = [error |-> "none", dicts |-> <<>>, columns |-> <<>>]
    /\ feat_pc = "ready"

\* build_feature_matrix(rounds_df, positions_df, utility_df, kills_df, side)
CallBuildFeatureMatrix ==
    /\ feat_pc = "ready"
    /\ matrix' = BuildFeatureFrame(batch)
    /\ feat_pc' = "done"
    /\ UNCHANGED batch
    /\ UNCHANGED <<team_vars, side_vars, disc_vars, clus_vars, ana_vars,
                   hits_vars, proc_vars, stats_vars>>

(***************************************************************************)
(* cluster_strategies on a table of ClusterRounds rounds                   *)
(***************************************************************************)
\* the number of rounds that are clustered
ClusterRounds == 6

\* the feature values a round can have
ClusterPoints ==
    << [first_kill_time |-> 0,  kills_before_30s |-> 0],
       [first_kill_time |-> 1, kills_before_30s |-> 1],
       [first_kill_time |-> 2, kills_before_30s |-> 0] >>

\* eps near zero, the default 0.5, and an eps beyond every distance
TinyEps == [num |-> 1, den |-> 100]
HugeEps == [num |-> 100, den |-> 1]
EpsChoices == {TinyEps, [num |-> EpsNum, den |-> EpsDen], HugeEps}

MinSamplesChoices == {1, MinSamples, 3, ClusterRounds, ClusterRounds + 1}

ClusIdle ==
    /\ clus_args = [features_df |-> <<>>, eps |-> [num |-> EpsNum, den |-> EpsDen],
                    min_samples |-> MinSamples]
    /\ clus_result = <<>>
    /\ clus_pc = "idle"

\* a rounds with the first feature values, b with the second, the others
\* with the third
ClusStart ==
    /\ \E a \in 0..ClusterRounds, e \in EpsChoices, m \in MinSamplesChoices :
        \E b \in 0..(ClusterRounds - a) :
            clus_args = [features_df |->
                            [i \in 1..ClusterRounds |->
                                IF i <= a THEN ClusterPoints[1]
                                ELSE IF i <= a + b THEN ClusterPoints[2]
                                ELSE ClusterPoints[3]],
                         eps |-> e, min_samples |-> m]
    /\ clus_result = <<>>
    /\ clus_pc = "ready"

\* clusters, scaler = cluster_strategies(features_df, eps, min_samples)
CallClusterStrategies ==
    /\ clus_pc = "ready"
    /\ clus_result' = ClusterStrategies(clus_args.features_df, clus_args.eps,
                                     clus_args.min_samples)
    /\ clus_pc' = "done"
    /\ UNCHANGED clus_args
    /\ UNCHANGED <<team_vars, side_vars, disc_vars, feat_vars, ana_vars,
                   hits_vars, proc_vars, stats_vars>>

(***************************************************************************)
(* analyze_strategy_clusters                                               *)
(***************************************************************************)
\* winner and bombsite of a round of the table
RoundOutcomes ==
    { [winner |-> "T",  bombsite |-> "bombsite_a"],
      [winner |-> "CT", bombsite |-> "bombsite_b"],
      [winner |-> "CT", bombsite |-> "not_planted"] }

\* the labels of a round: noise, a cluster, or none for a round that had no
\* feature vector
LabelChoices == {Noise, 0, 1, NoCluster}

CountWhere(rows, Test(_)) == Len(SelectSeq(rows, Test))

\* bombsite_counts.index[0]: the sites with the largest count; value_counts
\* does not fix the order of equal counts
TopSites(rows) ==
    LET sites == {rows[k].bombsite : k \in 1..Len(rows)}
        N(site) == CountWhere(rows, LAMBDA r : r.bombsite = site)
    IN  {site \in sites : \A other \in sites : N(site) >= N(other)}

\* wins of the analysed side among the rows
Wins(rows, s) ==
    IF \E k \in 1..Len(rows) : rows[k].side # NA
    THEN CountWhere(rows, LAMBDA r : r.side = r.winner)
    ELSE CountWhere(rows, LAMBDA r : r.winner = s)

\* the entry of one cluster; percentages are fractions [num, den]
ClusterEntry(cluster_rounds, s, n_side_rounds, primary) ==
    LET total_rounds == Len(cluster_rounds)
        sites == {cluster_rounds[k].bombsite : k \in 1..Len(cluster_rounds)}
        N(site) == CountWhere(cluster_rounds, LAMBDA r : r.bombsite = site)
    IN  [frequency |-> total_rounds,
         percentage_of_rounds |-> [num |-> total_rounds * 100, den |-> n_side_rounds],
         wins |-> Wins(cluster_rounds, s),
         losses |-> total_rounds - Wins(cluster_rounds, s),
         bombsite_primary |-> primary,
         bombsite_distribution |->
             [site \in sites \ {"not_planted"} |->
                 [count |-> N(site),
                  percentage |-> [num |-> N(site) * 100, den |-> total_rounds]]],
         round_numbers |-> [k \in 1..Len(cluster_rounds) |-> cluster_rounds[k].round_num]]

NoSideRoundsIgnored(side_rounds) == FALSE

\* the rows analyze_strategy_clusters keeps for a side
SideRounds(args) ==
    IF \E k \in 1..Len(args.rounds_df) : args.rounds_df[k].side # NA
    THEN SelectSeq(args.rounds_df, LAMBDA r : r.side = args.side)
    ELSE args.rounds_df

\* the cluster ids that get an entry: not the noise label, and a missing
\* label selects no rows
ClusterIds(side_rounds) ==
    {side_rounds[k].strategy_cluster : k \in 1..Len(side_rounds)}
        \ {Noise, NoCluster}

\* if side_rounds.empty: return {'error': ...}
NoSideRounds(side_rounds) == Len(side_rounds) = 0

NoAnalysis == [error |-> "none", strategies |-> <<>>, unclustered |-> <<>>]

\* analyze_strategy_clusters(rounds_df, side); primary gives for every
\* cluster the site value_counts lists first
AnalyzeStrategyClusters(args, primary) ==
    LET side_rounds == SideRounds(args)
        ids == ClusterIds(side_rounds)
        Of(id) == SelectSeq(side_rounds, LAMBDA r : r.strategy_cluster = id)
        noise_rounds == Of(Noise)
    IN  IF ~args.has_cluster
        THEN [error |-> "No strategy clusters found in data",
              strategies |-> <<>>, unclustered |-> <<>>]
        ELSE IF NoSideRounds(side_rounds)
        THEN [error |-> "No rounds found", strategies |-> <<>>, unclustered |-> <<>>]
        ELSE [error |-> "none",
              strategies |-> [id \in ids |->
                                 ClusterEntry(Of(id), args.side, Len(side_rounds),
                                              primary[id])],
              unclustered |->
                  IF Len(noise_rounds) = 0 THEN <<>>
                  ELSE <<[frequency |-> Len(noise_rounds),
                          percentage_of_rounds |->
                              [num |-> Len(noise_rounds) * 100, den |-> Len(side_rounds)],
                          wins |-> Wins(noise_rounds, args.side),
                          losses |-> Len(noise_rounds) - Wins(noise_rounds, args.side)]>>]

AnaIdle ==
    /\ ana_args = [rounds_df |-> <<>>, has_cluster |-> FALSE, side |-> "T"]
    /\ analysis = NoAnalysis
    /\ ana_pc = "idle"

\* The table discover_strategies returned for the same side: at most
\* MaxRounds rounds; with team_mode the side column holds the team's side;
\* a round of the analysed side has a label or none, the others none.
\* Without has_cluster the table is the one returned with an error.
AnaStart ==
    /\ \E n \in 0..MaxRounds, team_mode, has_cluster \in BOOLEAN, s \in {"T", "CT"} :
        \E t \in [1..n -> [outcome : RoundOutcomes, label : LabelChoices,
                           side : IF team_mode THEN {"T", "CT"} ELSE {NA}]] :
            ana_args =
                [rounds_df |->
                    [k \in 1..n |->
                        [round_num |-> k, side |-> t[k].side,
                         winner |-> t[k].outcome.winner,
                         bombsite |-> t[k].outcome.bombsite,
                         strategy_cluster |->
                             IF has_cluster /\ t[k].side \in {NA, s}
                             THEN t[k].label ELSE NoCluster]],
                 has_cluster |-> has_cluster, side |-> s]
    /\ analysis = NoAnalysis
    /\ ana_pc = "ready"

\* strategy_analysis = analyze_strategy_clusters(rounds_df, side)
CallAnalyzeStrategyClusters ==
    /\ ana_pc = "ready"
    /\ LET side_rounds == SideRounds(ana_args)
           ids == ClusterIds(side_rounds)
       IN  \E primary \in [ids -> {"bombsite_a", "bombsite_b", "not_planted"}] :
              /\ \A id \in ids :
                    primary[id] \in TopSites(SelectSeq(side_rounds,
                                        LAMBDA r : r.strategy_cluster = id))
              /\ analysis' = AnalyzeStrategyClusters(ana_args, primary)
    /\ ana_pc' = "done"
    /\ UNCHANGED ana_args
    /\ UNCHANGED <<team_vars, side_vars, disc_vars, feat_vars, clus_vars,
                   hits_vars, proc_vars, stats_vars>>

(***************************************************************************)
(* analyze_bombsite_hits                                                   *)
(***************************************************************************)
NoHits ==
    [error |-> "none", analysis_mode |-> "none", total_t_rounds |-> 0,
     total_plants |-> 0, t_wins |-> 0, t_losses |-> 0]

\* the mode when every round counts, whatever its side
TRoundsUnfiltered(rows) == rows

\* t_rounds: the rounds the team played as T when the side column has
\* data, else every round
TRounds(rows) ==
    IF \E k \in 1..Len(rows) : rows[k].side # NA
    THEN SelectSeq(rows, LAMBDA r : r.side = "T")
    ELSE rows

\* analyze_bombsite_hits(rounds_df)
AnalyzeBombsiteHits(rows) ==
    LET analysis_mode == IF \E k \in 1..Len(rows) : rows[k].side # NA
                         THEN "team_specific" ELSE "general"
        t_rounds == TRounds(rows)
        t_wins == CountWhere(t_rounds, LAMBDA r : r.winner = "T")
    IN  IF Len(rows) = 0
        THEN [NoHits EXCEPT !.error = "No round data provided"]
        ELSE IF Len(t_rounds) = 0
        THEN [NoHits EXCEPT !.error = IF analysis_mode = "team_specific"
                                      THEN "No T-side rounds found"
                                      ELSE "No rounds found"]
        ELSE [error          |-> "none",
              analysis_mode  |-> analysis_mode,
              total_t_rounds |-> Len(t_rounds),
              total_plants   |-> CountWhere(t_rounds,
                                            LAMBDA r : r.bombsite # "not_planted"),
              t_wins         |-> t_wins,
              t_losses       |-> Len(t_rounds) - t_wins]

HitsIdle ==
    /\ hits_args = <<>>
    /\ hits_result = NoHits
    /\ hits_pc = "idle"

\* a round table of at most MaxRounds + 1 rounds as the round extractor
\* writes it: a side column that holds the team's side or nothing
HitsStart ==
    /\ \E n \in 0..(MaxRounds + 1) :
        \E t \in [1..n -> [side : RoundSides, outcome : RoundOutcomes]] :
            hits_args = [k \in 1..n |->
                            [round_num |-> k, side |-> t[k].side,
                             winner |-> t[k].outcome.winner,
                             bombsite |-> t[k].outcome.bombsite]]
    /\ hits_result = NoHits
    /\ hits_pc = "ready"

\* analysis = analyze_bombsite_hits(rounds_df)
CallAnalyzeBombsiteHits ==
    /\ hits_pc = "ready"
    /\ hits_result' = AnalyzeBombsiteHits(hits_args)
    /\ hits_pc' = "done"
    /\ UNCHANGED hits_args
    /\ UNCHANGED <<team_vars, side_vars, disc_vars, feat_vars, clus_vars, ana_vars,
                   proc_vars, stats_vars>>

(***************************************************************************)
(* process_demos_batch: the worker pool and the aggregation                *)
(***************************************************************************)
NoMap == "None"

AllTables == {"rounds", "utility", "positions", "kills"}

\* What the worker of one demo comes to: it returns the four tables
\* ("ok"; an extractor that failed inside returned None for its table), it
\* catches an exception of the decoder ("raised"), or the future raises
\* when its result is retrieved ("broken").
MatchOutcomes ==
    { [outcome |-> "ok", map |-> "de_a", tables |-> AllTables],
      [outcome |-> "ok", map |-> "de_b", tables |-> AllTables],
      [outcome |-> "ok", map |-> "de_a", tables |-> AllTables \ {"rounds"}],
      [outcome |-> "raised", map |-> NoMap, tables |-> {}],
      [outcome |-> "broken", map |-> NoMap, tables |-> {}] }

\* the calls: validate_map, target_map, max_workers (0 for None), cpu_count()
BatchCalls ==
    { [validate_map |-> TRUE,  target_map |-> NoMap,  max_workers |-> 0, cpus |-> 8],
      [validate_map |-> TRUE,  target_map |-> "de_b", max_workers |-> 0, cpus |-> 1],
      [validate_map |-> FALSE, target_map |-> NoMap,  max_workers |-> 0, cpus |-> 8],
      [validate_map |-> TRUE,  target_map |-> NoMap,  max_workers |-> MaxDemos,
       cpus |-> 8] }

\* max_workers of the executor
Workers(call, n) ==
    IF call.max_workers = 0
    THEN MinOf({2, call.cpus, n})
    ELSE call.max_workers

\* the dictionary of demo i that is appended to results
ResultOf(i) ==
    [file    |-> i,
     success |-> job.demos[i].outcome = "ok",
     map     |-> job.demos[i].map,
     tables  |-> job.demos[i].tables]

NoBatch ==
    [status |-> "none", target_map |-> NoMap, errors |-> <<>>, processed |-> <<>>,
     rounds |-> <<>>, utility |-> <<>>, positions |-> <<>>, kills |-> <<>>,
     summary |-> [total_demos |-> 0, processed_demos |-> 0, failed_demos |-> 0]]

\* The loop over results: acc holds target_map, errors, the files of
\* processed_demos, and per table the files whose frame was appended.
RECURSIVE CollectAndValidate(_, _, _, _)
CollectAndValidate(rs, k, validate_map, acc) ==
    IF k > Len(rs) THEN acc
    ELSE LET r == rs[k]
             Listed(tbl) == IF tbl \in r.tables THEN Append(acc[tbl], r.file)
                            ELSE acc[tbl]
             taken == [acc EXCEPT !.rounds = Listed("rounds"),
                                  !.utility = Listed("utility"),
                                  !.positions = Listed("positions"),
                                  !.kills = Listed("kills"),
                                  !.processed = Append(@, r.file)]
         IN  IF ~r.success
             THEN CollectAndValidate(rs, k + 1, validate_map,
                      [acc EXCEPT !.errors = Append(@, [file |-> r.file,
                                                        kind |-> "error"])])
             ELSE IF validate_map /\ acc.target_map = NoMap
             THEN CollectAndValidate(rs, k + 1, validate_map,
                      [taken EXCEPT !.target_map = r.map])
             ELSE IF validate_map /\ r.map # acc.target_map
             THEN CollectAndValidate(rs, k + 1, validate_map,
                      [acc EXCEPT !.errors = Append(@, [file |-> r.file,
                                                        kind |-> "mismatch"])])
             ELSE CollectAndValidate(rs, k + 1, validate_map, taken)

ConsolidatedCountingProcessedTwice(rs, call, n) ==
    LET acc == CollectAndValidate(rs, 1, call.validate_map,
                                  [NoBatch EXCEPT !.target_map = call.target_map])
    IN  [acc EXCEPT !.status = "returned",
                    !.summary = [total_demos     |-> n,
                                 processed_demos |-> Len(acc.rounds),
                                 failed_demos    |-> Len(acc.errors)]]

\* what process_demos_batch returns for the list results
Consolidated(rs, call, n) ==
    LET acc == CollectAndValidate(rs, 1, call.validate_map,
                                  [NoBatch EXCEPT !.target_map = call.target_map])
    IN  [acc EXCEPT !.status = "returned",
                    !.summary = [total_demos     |-> n,
                                 processed_demos |-> Len(acc.processed),
                                 failed_demos    |-> Len(acc.errors)]]

ProcIdle ==
    /\ job = [demos |-> <<>>, call |-> CHOOSE c \in BatchCalls : TRUE]
    /\ pool = <<>>
    /\ results = <<>>
    /\ consolidated = NoBatch
    /\ proc_pc = "idle"

\* a folder of at most MaxDemos demo files, in sorted order
ProcStart ==
    /\ \E n \in 0..MaxDemos, call \in BatchCalls :
        \E demos \in [1..n -> MatchOutcomes] :
            job = [demos |-> demos, call |-> call]
    /\ pool = <<>>
    /\ results = <<>>
    /\ consolidated = NoBatch
    /\ proc_pc = "ready"

\* the ValueError for a folder without demo files, or the submission of one
\* task per demo to the executor
SubmitAll ==
    /\ proc_pc = "ready"
    /\ IF Len(job.demos) = 0
       THEN /\ consolidated' = [NoBatch EXCEPT !.status = "raised"]
            /\ proc_pc' = "done"
            /\ UNCHANGED pool
       ELSE /\ pool' = [i \in 1..Len(job.demos) |-> "pending"]
            /\ proc_pc' = "pool"
            /\ UNCHANGED consolidated
    /\ UNCHANGED <<job, results>>
    /\ UNCHANGED <<team_vars, side_vars, disc_vars, feat_vars, clus_vars, ana_vars,
                   hits_vars, stats_vars>>

\* a free worker process takes the next task of the queue
StartWorker ==
    /\ proc_pc = "pool"
    /\ Cardinality({i \in DOMAIN pool : pool[i] = "running"})
           < Workers(job.call, Len(job.demos))
    /\ \E i \in DOMAIN pool :
          /\ pool[i] = "pending"
          /\ \A j \in 1..(i - 1) : pool[j] # "pending"
          /\ pool' = [pool EXCEPT ![i] = "running"]
    /\ UNCHANGED <<job, results, consolidated, proc_pc>>
    /\ UNCHANGED <<team_vars, side_vars, disc_vars, feat_vars, clus_vars, ana_vars,
                   hits_vars, stats_vars>>

\* _process_single_demo returns, or the worker dies: the future is done
FinishWorker ==
    /\ proc_pc = "pool"
    /\ \E i \in DOMAIN pool :
          /\ pool[i] = "running"
          /\ pool' = [pool EXCEPT ![i] = "finished"]
    /\ UNCHANGED <<job, results, consolidated, proc_pc>>
    /\ UNCHANGED <<team_vars, side_vars, disc_vars, feat_vars, clus_vars, ana_vars,
                   hits_vars, stats_vars>>

YieldedWhileRunning(i) == pool[i] \in {"running", "finished"}

\* as_completed yields a future when it is done
Yielded(i) == pool[i] = "finished"

\* one turn of the loop over as_completed: future.result() or the except
CollectResult ==
    /\ proc_pc = "pool"
    /\ \E i \in DOMAIN pool :
          /\ Yielded(i)
          /\ results' = Append(results, ResultOf(i))
          /\ pool' = [pool EXCEPT ![i] = "collected"]
    /\ UNCHANGED <<job, consolidated, proc_pc>>
    /\ UNCHANGED <<team_vars, side_vars, disc_vars, feat_vars, clus_vars, ana_vars,
                   hits_vars, stats_vars>>

\* the with block is left when as_completed is exhausted; validation,
\* consolidation and the summary follow
Aggregate ==
    /\ proc_pc = "pool"
    /\ Len(results) = Len(job.demos)
    /\ consolidated' = Consolidated(results, job.call, Len(job.demos))
    /\ proc_pc' = "done"
    /\ UNCHANGED <<job, pool, results>>
    /\ UNCHANGED <<team_vars, side_vars, disc_vars, feat_vars, clus_vars, ana_vars,
                   hits_vars, stats_vars>>

(***************************************************************************)
(* analyze_t_side, analyze_ct_side                                         *)
(***************************************************************************)
\* status "none": not called; "None": the function returned None
NoStats == [status |-> "none", total_rounds |-> 0, kills |-> 0, utility |-> 0]

\* The rows of events.merge(rounds_df[['round_num', 'side']], on='round_num',
\* how='left') that have side == s and the event's own side == s: an event
\* has one row per round row with its round_num.
MergedSideRows(events, side_field, rounds, s) ==
    SumOver(Len(events.rows),
            LAMBDA k : IF events.rows[k][side_field] = s
                       THEN CountWhere(rounds,
                                LAMBDA r : /\ r.round_num = events.rows[k].round_num
                                           /\ r.side = s)
                       ELSE 0)

\* analyze_t_side (b.side = "T") and analyze_ct_side (b.side = "CT") on the
\* combined tables; a total of 0 stands for the entry None
AnalyzeSide(b) ==
    LET side_rounds == SelectSeq(b.rounds, LAMBDA r : r.side = b.side)
    IN  IF Len(b.rounds) = 0 THEN [NoStats EXCEPT !.status = "None"]
        ELSE IF Len(side_rounds) = 0 THEN [NoStats EXCEPT !.status = "error"]
        ELSE [status       |-> "ok",
              total_rounds |-> Len(side_rounds),
              kills        |-> MergedSideRows(b.kills, "attacker_side", b.rounds, b.side),
              utility      |-> MergedSideRows(b.utility, "thrower_side", b.rounds, b.side)]

StatsIdle ==
    /\ side_stats = NoStats
    /\ stats_pc = "idle"

\* the combined tables of a batch, as for build_feature_matrix
StatsStart ==
    /\ FeatStart
    /\ side_stats = NoStats
    /\ stats_pc = "ready"

\* t_stats = analyze_t_side(rounds_df, kills_df, utility_df), or the same
\* for the CT side
CallAnalyzeSide ==
    /\ stats_pc = "ready"
    /\ side_stats' = AnalyzeSide(batch)
    /\ stats_pc' = "done"
    /\ UNCHANGED <<team_vars, side_vars, disc_vars, feat_vars, clus_vars, ana_vars,
                   hits_vars, proc_vars>>

(***************************************************************************)
(* Specifications                                                          *)
(***************************************************************************)
TeamInit == TeamStart /\ SideIdle /\ DiscIdle /\ FeatIdle /\ ClusIdle /\ AnaIdle
                /\ HitsIdle /\ ProcIdle /\ StatsIdle
TeamNext == CallIdentifyAllTeams \/ CallIdentifyCommonTeam
SpecTeam == TeamInit /\ [][TeamNext]_vars

SideInit == SideStart /\ TeamIdle /\ DiscIdle /\ FeatIdle /\ ClusIdle /\ AnaIdle
                /\ HitsIdle /\ ProcIdle /\ StatsIdle
SideNext == CallDetermineTeamSide
SpecSide == SideInit /\ [][SideNext]_vars

TrioInit == TrioStart /\ TeamIdle /\ DiscIdle /\ FeatIdle /\ ClusIdle /\ AnaIdle
                /\ HitsIdle /\ ProcIdle /\ StatsIdle
SpecSideTrio == TrioInit /\ [][SideNext]_vars

DiscInit == DiscStart /\ TeamIdle /\ SideIdle /\ FeatIdle /\ ClusIdle /\ AnaIdle
                /\ HitsIdle /\ ProcIdle /\ StatsIdle
DiscNext == CallDiscoverStrategies
SpecDiscover == DiscInit /\ [][DiscNext]_vars

FeatInit == FeatStart /\ TeamIdle /\ SideIdle /\ DiscIdle /\ ClusIdle /\ AnaIdle
                /\ HitsIdle /\ ProcIdle /\ StatsIdle
FeatNext == CallBuildFeatureMatrix
SpecFeatures == FeatInit /\ [][FeatNext]_vars

ClusInit == ClusStart /\ TeamIdle /\ SideIdle /\ DiscIdle /\ FeatIdle /\ AnaIdle
                /\ HitsIdle /\ ProcIdle /\ StatsIdle
ClusNext == CallClusterStrategies
SpecCluster == ClusInit /\ [][ClusNext]_vars

AnaInit == AnaStart /\ TeamIdle /\ SideIdle /\ DiscIdle /\ FeatIdle /\ ClusIdle
                /\ HitsIdle /\ ProcIdle /\ StatsIdle
AnaNext == CallAnalyzeStrategyClusters
SpecAnalyze == AnaInit /\ [][AnaNext]_vars

HitsInit == HitsStart /\ TeamIdle /\ SideIdle /\ DiscIdle /\ FeatIdle /\ ClusIdle
                /\ AnaIdle /\ ProcIdle /\ StatsIdle
SpecHits == HitsInit /\ [][CallAnalyzeBombsiteHits]_vars

ProcInit == ProcStart /\ TeamIdle /\ SideIdle /\ DiscIdle /\ FeatIdle /\ ClusIdle
                /\ AnaIdle /\ HitsIdle /\ StatsIdle
ProcNext ==
    \/ SubmitAll
    \/ StartWorker
    \/ FinishWorker
    \/ CollectResult
    \/ Aggregate
SpecBatch == ProcInit /\ [][ProcNext]_vars

StatsInit == StatsStart /\ TeamIdle /\ SideIdle /\ DiscIdle /\ ClusIdle
                /\ AnaIdle /\ HitsIdle /\ ProcIdle
SpecSides == StatsInit /\ [][CallAnalyzeSide]_vars

(***************************************************************************)
(* Team identification: claims                                             *)
(***************************************************************************)
AllDone == "all" \in team_pc
CommonDone == "common" \in team_pc

\* the grouping loop runs only past the early return on the demo count
GroupingRan == Len(demo_paths) > 0 /\ Len(demo_paths) >= min_demos

AllComps == TeamCompositions(demo_paths, 1, min_players)
AllGroups == GroupTeams(AllComps, 1, {}, min_players)

\* C2 (as claimed): Team Identification is invariant to the order of the
\* demo list: every permutation of demo_paths gives the same collection of
\* player sets from identify_all_teams and the same player set from
\* identify_common_team.
C2_OrderInvariant ==
    \A p \in Permutations(1..Len(demo_paths)) :
        /\ AllDone =>
              Range(IdentifyAllTeams(PermuteSeq(demo_paths, p), min_players, min_demos))
                  = Range(all_teams)
        /\ CommonDone =>
              IdentifyCommonTeam(PermuteSeq(demo_paths, p), min_players) = common_team

\* C3: every player set returned by Team Identification has at least
\* min_players members or is empty (each set of identify_all_teams and the
\* set of identify_common_team).
C3_ReturnedSetsHaveMinPlayers ==
    /\ AllDone =>
          \A k \in 1..Len(all_teams) :
              all_teams[k] = {} \/ Cardinality(all_teams[k]) >= min_players
    /\ CommonDone =>
          common_team = {} \/ Cardinality(common_team) >= min_players

\* a snapshot shorter than min_players was offered, both functions have
\* returned, and both returned a non-empty result
C3_Witness ==
    /\ AllDone /\ CommonDone
    /\ Len(all_teams) >= 1
    /\ common_team # {}
    /\ \E k \in 1..Len(demo_paths) :
          /\ demo_paths[k].ok
          /\ Cardinality(demo_paths[k].T) < min_players
          /\ Cardinality(demo_paths[k].T) >= SnapshotMin

\* the snapshots linked to those of S by a chain of overlaps >= min_players
RECURSIVE ChainFrom(_, _)
ChainFrom(comps, S) ==
    LET more == S \cup {j \in 1..Len(comps) :
                          \E i \in S : Cardinality(comps[i].team \cap comps[j].team)
                                          >= min_players}
    IN  IF more = S THEN S ELSE ChainFrom(comps, more)

GroupOf(groups, i) == CHOOSE k \in 1..Len(groups) : i \in groups[k].members

\* C4 (as claimed): identify_all_teams groups the snapshots by single
\* linkage: two snapshots joined by a chain of overlaps of at least
\* min_players are in the same group.
C4_SingleLinkage ==
    (AllDone /\ GroupingRan) =>
        \A i \in 1..Len(AllComps) :
            \A j \in ChainFrom(AllComps, {i}) :
                GroupOf(AllGroups, i) = GroupOf(AllGroups, j)

OtherSide(d, roster) == IF d.T = roster THEN d.CT ELSE d.T

\* three matches, one side {A,B,C,D,E} in matches 1 and 2 and {A,B,C,D,F}
\* in match 3, the opposing rosters recurring nowhere
C5_Scenario ==
    /\ min_players = 4 /\ min_demos = 2
    /\ Len(demo_paths) = 3
    /\ \A k \in 1..3 : demo_paths[k].ok
    /\ ABCDE \in {demo_paths[1].T, demo_paths[1].CT}
    /\ ABCDE \in {demo_paths[2].T, demo_paths[2].CT}
    /\ ABCDF \in {demo_paths[3].T, demo_paths[3].CT}
    /\ LET opp == <<OtherSide(demo_paths[1], ABCDE),
                    OtherSide(demo_paths[2], ABCDE),
                    OtherSide(demo_paths[3], ABCDF)>>
       IN  \A i, j \in 1..3 :
               i # j => Cardinality(opp[i] \cap opp[j]) < min_players

\* C5 (as claimed): in that scenario identify_all_teams returns the team
\* {A,B,C,D}.
C5_CoreIsABCD ==
    (AllDone /\ C5_Scenario) => all_teams = <<ABCD>>

\* C5 (amended): in that scenario identify_all_teams returns the single team
\* {A,B,C,D,E}: E is in 2 of the group's 3 matches, which is above 60%.
C5_CoreIsABCDE ==
    (AllDone /\ C5_Scenario) => all_teams = <<ABCDE>>

C5_Witness == AllDone /\ C5_Scenario /\ Len(all_teams) = 1

\* the distinct matches of a group in which player is in one of the group's
\* snapshots
MatchesWith(comps, group, player) ==
    {d \in group.demos :
        \E j \in group.members : comps[j].demo = d /\ player \in comps[j].team}

SixtyPctPlayers(comps, group) ==
    {p \in GroupPlayers(comps, group) :
        100 * Cardinality(MatchesWith(comps, group, p)) >= 60 * Cardinality(group.demos)}

RECURSIVE SixtyPctTeams(_, _, _)
SixtyPctTeams(comps, groups, k) ==
    IF k > Len(groups) THEN <<>>
    ELSE (IF /\ Cardinality(groups[k].demos) >= min_demos
             /\ Cardinality(SixtyPctPlayers(comps, groups[k])) >= min_players
          THEN <<SixtyPctPlayers(comps, groups[k])>> ELSE <<>>)
         \o SixtyPctTeams(comps, groups, k + 1)

\* C6: for every group that identify_all_teams turns into a team, the
\* returned membership is exactly the set of players found in the group's
\* snapshots in at least 60% of the group's distinct matches.
C6_MembershipIsSixtyPct ==
    (AllDone /\ GroupingRan) => all_teams = SixtyPctTeams(AllComps, AllGroups, 1)

\* a team was returned that leaves out a player of its group
C6_Witness ==
    /\ AllDone /\ GroupingRan
    /\ \E k \in 1..Len(AllGroups) :
          /\ Cardinality(AllGroups[k].demos) >= min_demos
          /\ SixtyPctPlayers(AllComps, AllGroups[k]) # GroupPlayers(AllComps, AllGroups[k])
          /\ SixtyPctPlayers(AllComps, AllGroups[k]) \in Range(all_teams)

DecodedDemos == {k \in 1..Len(demo_paths) : demo_paths[k].ok}

\* C7: identify_all_teams returns a team only for a group whose snapshots
\* come from at least min_demos distinct matches; with fewer than min_demos
\* matches given, or decoded, it returns the empty list.
C7_TeamsSpanMinDemos ==
    AllDone =>
        LET comps == AllComps
            groups == GroupTeams(comps, 1, {}, min_players)
            spanning == {k \in 1..Len(groups) :
                            Cardinality({comps[j].demo : j \in groups[k].members})
                                >= min_demos}
            players == [k \in spanning |-> GroupPlayers(comps, groups[k])]
        IN  /\ (Len(demo_paths) < min_demos \/ Cardinality(DecodedDemos) < min_demos)
                   => all_teams = <<>>
            /\ Len(all_teams) <= Cardinality(spanning)
            /\ \A t \in 1..Len(all_teams) :
                   \E k \in spanning : all_teams[t] \subseteq players[k]

\* a team was returned while another group, spanning too few matches, was not
C7_Witness ==
    /\ AllDone /\ GroupingRan
    /\ Len(all_teams) >= 1
    /\ \E k \in 1..Len(AllGroups) : Cardinality(AllGroups[k].demos) < min_demos

\* the roster snapshots identify_common_team keeps for a demo
Snapshots(d) ==
    IF d.ok THEN {S \in {d.T, d.CT} : Cardinality(S) >= SnapshotMin} ELSE {}

\* the matches a player set takes part in: those with a snapshot sharing
\* at least min_players players with it
MatchesOf(X) ==
    {k \in 1..Len(demo_paths) :
        \E S \in Snapshots(demo_paths[k]) : Cardinality(S \cap X) >= min_players}

\* the matches of X in which player is in that snapshot
CoOccurs(player, X) ==
    {k \in MatchesOf(X) :
        \E S \in Snapshots(demo_paths[k]) :
            Cardinality(S \cap X) >= min_players /\ player \in S}

CommonComps == CommonCompositions(demo_paths, 1)
CommonBest == CommonComps[BestTeam(CommonComps, min_players)].team

\* the return of consistent_players is taken
ConsistentBranch ==
    /\ Len(CommonComps) > 0
    /\ LET comps == CommonComps
           consistent == CommonConsistent(comps, BestTeam(comps, min_players),
                                          min_players, Len(demo_paths))
       IN  consistent # {} /\ Cardinality(consistent) >= min_players

\* C8 (as claimed): every player of the set identify_common_team returns is
\* with the rest of the set in at least 60% of the matches the set takes
\* part in, for any number of matches and any overlaps.
C8_EveryPlayerSixtyPct ==
    CommonDone =>
        \A p \in common_team :
            100 * Cardinality(CoOccurs(p, common_team))
                >= 60 * Cardinality(MatchesOf(common_team))

\* C8 (amended): when the best snapshot has at least min_players consistent
\* players, every returned player is in at least 60% of the matches that
\* have a snapshot sharing min_players players with the best snapshot
\* (otherwise the best snapshot itself is returned, with no such guarantee).
C8_ConsistentBranchSixtyPct ==
    (CommonDone /\ ConsistentBranch) =>
        LET best == CommonBest
            matches == Cardinality(MatchesOf(best))
        IN  \A p \in common_team :
                100 * Cardinality(CoOccurs(p, best)) >= 60 * matches

\* the consistent players were returned and a player of the best snapshot
\* was left out
C8_Witness ==
    /\ CommonDone
    /\ common_team # {}
    /\ ConsistentBranch
    /\ common_team # CommonBest

(***************************************************************************)
(* Round side attribution: claims                                          *)
(***************************************************************************)
SideDone == side_pc = "done"
WellFormed == demo_obj.has_ticks /\ demo_obj.cols = AllCols

\* the rows of the round that give player a side
SideRows(player) ==
    {i \in 1..Len(demo_obj.ticks) :
        /\ demo_obj.ticks[i].round_num = round_num
        /\ demo_obj.ticks[i].name = player
        /\ demo_obj.ticks[i].side \notin {NA, Absent}}

Observed == {p \in team_players : SideRows(p) # {}}

FirstSeenSide(player) ==
    LET first == CHOOSE i \in SideRows(player) : \A j \in SideRows(player) : i <= j
    IN  Upper(demo_obj.ticks[first].side)

Holding(s) == {p \in Observed : FirstSeenSide(p) = s}

FirstEnumerated ==
    LET k == CHOOSE i \in 1..Len(enum_order) :
                 /\ enum_order[i] \in Observed
                 /\ \A j \in 1..(i - 1) : enum_order[j] \notin Observed
    IN  enum_order[k]

NoUsableTicks ==
    \/ ~demo_obj.has_ticks
    \/ demo_obj.cols # AllCols
    \/ \A i \in 1..Len(demo_obj.ticks) : demo_obj.ticks[i].round_num # round_num
    \/ \A i \in 1..Len(demo_obj.ticks) : demo_obj.ticks[i].side \in {NA, Absent}
    \/ Observed = {}

\* C10 (as claimed): with missing or malformed per-tick data, or no team
\* player observed in the round, determine_team_side_for_round returns None
\* and raises no exception.
C10_UnknownNeverRaises ==
    SideDone =>
        /\ side_result # "KeyError"
        /\ NoUsableTicks => side_result = "None"

\* C11 (as claimed): two runs of determine_team_side_for_round on the same
\* round, tick observations and team set return the same side, whatever the
\* order in which each run enumerates the team set.
C11_SameSideForEveryEnumeration ==
    SideDone =>
        \A order \in Orderings(team_players) :
            DetermineTeamSide(demo_obj, round_num, order) = side_result

\* C12 (as claimed): determine_team_side_for_round returns only 'T', 'CT'
\* or None, whatever side values the well-formed tick observations hold.
C12_OnlyTCtOrNone ==
    (SideDone /\ WellFormed) => side_result \in {"T", "CT", "None"}

(***************************************************************************)
(* Strategy discovery: claims                                              *)
(***************************************************************************)
DiscDone == disc_pc = "done"

\* the label of the feature vector built for row k of rounds_df, if any
LabelBuiltFor(k) ==
    IF \E f \in 1..Len(features_df) : features_df[f].idx = k
    THEN features_df[CHOOSE f \in 1..Len(features_df) :
                        features_df[f].idx = k].strategy_cluster
    ELSE NoCluster

\* C1: when the round table and the feature table both carry match_file,
\* the cluster label written onto round row (m, r) is the label of the
\* feature vector built for exactly (m, r): rows of two matches that share
\* a round_num each receive the label of their own match's vector.
C1_LabelOfOwnMatch ==
    (DiscDone /\ rounds_df.has_match_file /\ ~discovered.error) =>
        \A k \in 1..Len(discovered.rows) :
            discovered.rows[k].strategy_cluster = LabelBuiltFor(k)

\* two matches share a round_num and their two rows got different labels
C1_Witness ==
    /\ DiscDone /\ rounds_df.has_match_file /\ ~discovered.error
    /\ \E i, j \in 1..Len(discovered.rows) :
          /\ discovered.rows[i].round_num = discovered.rows[j].round_num
          /\ discovered.rows[i].match_file # discovered.rows[j].match_file
          /\ discovered.rows[i].strategy_cluster # NoCluster
          /\ discovered.rows[j].strategy_cluster # NoCluster
          /\ discovered.rows[i].strategy_cluster # discovered.rows[j].strategy_cluster

SameRecord(k) ==
    /\ discovered'.rows[k].match_file = rounds_df.rows[k].match_file
    /\ discovered'.rows[k].round_num = rounds_df.rows[k].round_num
    /\ discovered'.rows[k].side = rounds_df.rows[k].side

FeatDone == feat_pc = "done"
FeatBuilt == FeatDone /\ matrix.error = "none" /\ Len(matrix.dicts) > 0

\* the feature names of vector k, in the order of the vector
KeysOf(k) ==
    [e \in 1..Len(matrix.dicts[k].entries) |->
        [name |-> matrix.dicts[k].entries[e].name, i |-> matrix.dicts[k].entries[e].i]]

\* C13 (as claimed): every vector extract_strategy_features produces for
\* one batch has the same feature names in the same order.
C13_SameNamesSameOrder ==
    FeatBuilt => \A j, k \in 1..Len(matrix.dicts) : KeysOf(j) = KeysOf(k)

\* C13 (amended): the vectors of one batch have the same length and the same
\* feature names, each name once, and the frame build_feature_matrix makes
\* of them has exactly these names as its columns, so that every row of the
\* matrix has a value for every column, in the one order of the columns.
C13_SameNamesOneColumnOrder ==
    FeatBuilt =>
        \A k \in 1..Len(matrix.dicts) :
            /\ Len(KeysOf(k)) = Len(matrix.columns)
            /\ Range(KeysOf(k)) = Range(matrix.columns)
            /\ Cardinality(Range(KeysOf(k))) = Len(KeysOf(k))
            /\ Len(KeysOf(k)) = 3 + 3 * GridSize * GridSize + 6 + 2

\* a batch with a round that has position records and a round that has
\* none: the two vectors list the grid features in different orders
C13_Witness ==
    /\ FeatBuilt
    /\ \E j, k \in 1..Len(matrix.dicts) :
          /\ matrix.dicts[j].used # NoBounds
          /\ matrix.dicts[k].used = NoBounds
          /\ KeysOf(j) # KeysOf(k)
          /\ Range(KeysOf(j)) = Range(KeysOf(k))

\* the rows of round row k that an event table holds for the analysed side
SideEvents(tbl, side_field, row) ==
    SelectSeq(tbl.rows, LAMBDA e : /\ e.round_num = row.round_num
                                   /\ e.match_file = row.match_file
                                   /\ e[side_field] = batch.side)

\* the round rows a vector is due for
DueRounds ==
    LET has_side_data == \E i \in 1..Len(batch.rounds) : batch.rounds[i].side # NA
    IN  SelectSeq(batch.rounds, LAMBDA row : has_side_data => row.side = batch.side)

AllZero(k, names) ==
    \A e \in 1..Len(matrix.dicts[k].entries) :
        matrix.dicts[k].entries[e].name \in names => matrix.dicts[k].entries[e].v = 0

\* C14 (as claimed): for every round of the round table that is analysed a
\* full-length vector is produced without failing, and a feature category
\* for which the round has no records of the analysed side is all zero.
C14_FullVectorNeverFails ==
    FeatDone =>
        /\ matrix.error = "none"
        /\ Len(matrix.dicts) = Len(DueRounds)
        /\ \A k \in 1..Len(matrix.dicts) :
            /\ Len(matrix.dicts[k].entries) = 3 + 3 * GridSize * GridSize + 6 + 2
            /\ (batch.positions.shape # "SideCol"
                  /\ Len(SideEvents(batch.positions, "player_side", DueRounds[k])) = 0)
                => AllZero(k, {"early_grid", "mid_grid", "late_grid"})
            /\ Len(SideEvents(batch.utility, "thrower_side", DueRounds[k])) = 0
                => AllZero(k, {"smoke_count", "flash_count", "he_count",
                               "molotov_count", "utility_avg_time", "utility_first_time"})
            /\ Len(SideEvents(batch.kills, "attacker_side", DueRounds[k])) = 0
                => AllZero(k, {"first_kill_time", "kills_before_30s"})

ValueOf(k, name) ==
    LET e == CHOOSE e \in 1..Len(matrix.dicts[k].entries) :
                 matrix.dicts[k].entries[e].name = name
    IN  matrix.dicts[k].entries[e].v

\* the sum of the cells of the three grids of vector k
GridTotal(k) ==
    SumOver(Len(matrix.dicts[k].entries),
            LAMBDA e : IF matrix.dicts[k].entries[e].name
                            \in {"early_grid", "mid_grid", "late_grid"}
                       THEN matrix.dicts[k].entries[e].v ELSE 0)

\* the position samples of round row k that pass the side filter: those of
\* the analysed side when the table has the player_side column, else all
FilteredSamples(row) ==
    SelectSeq(batch.positions.rows,
              LAMBDA p : /\ p.round_num = row.round_num
                         /\ p.match_file = row.match_file
                         /\ batch.positions.shape = "Plain"
                                => p.player_side = batch.side)

C28_KillsStrictlyBefore30 ==
    FeatBuilt =>
        \A k \in 1..Len(matrix.dicts) :
            LET side_kills == SideEvents(batch.kills, "attacker_side", DueRounds[k])
            IN  /\ ValueOf(k, "kills_before_30s")
                     = Len(SelectSeq(side_kills,
                                     LAMBDA e : e.seconds_into_round < 30))
                /\ Len(side_kills) > 0 =>
                     /\ \E j \in 1..Len(side_kills) :
                           side_kills[j].seconds_into_round
                               = ValueOf(k, "first_kill_time")
                     /\ \A j \in 1..Len(side_kills) :
                           side_kills[j].seconds_into_round
                               >= ValueOf(k, "first_kill_time")

(***************************************************************************)
(* Clustering: claims                                                      *)
(***************************************************************************)
ClusDone == clus_pc = "done"

\* the rows within eps of row i of the clustered table
ClusNeighbours(i) ==
    Neighbours(clus_args.features_df, ScaledVars(clus_args.features_df), i,
               clus_args.eps)

\* eps so large that all points fall in one neighbourhood
AllWithinEps == \A i \in 1..ClusterRounds : ClusNeighbours(i) = 1..ClusterRounds

\* eps near zero: no two rounds with different features are within eps
EpsNearZero ==
    /\ clus_args.eps = TinyEps
    /\ \A i \in 1..ClusterRounds : \A j \in ClusNeighbours(i) :
            clus_args.features_df[i] = clus_args.features_df[j]

\* the rounds with the features of round i, round i among them
Copies(i) ==
    {j \in 1..ClusterRounds : clus_args.features_df[j] = clus_args.features_df[i]}

\* C18 as stated: with all points in one neighbourhood every round gets one
\* and the same label and none gets -1; with eps near zero every round gets
\* -1, whatever the feature values and min_samples.
C18_OneLabelOrAllNoise ==
    ClusDone =>
        /\ AllWithinEps =>
              \A i \in 1..ClusterRounds :
                  clus_result[i] = clus_result[1] /\ clus_result[i] # Noise
        /\ EpsNearZero => \A i \in 1..ClusterRounds : clus_result[i] = Noise

\* C18 amended: with all points in one neighbourhood every round gets label
\* 0 when min_samples is at most the number of rounds, and -1 otherwise;
\* with eps near zero a round gets -1 exactly when fewer than min_samples
\* rounds have its features, and the other rounds share a label exactly
\* with the rounds of equal features.
C18_OneLabelWhenEnoughRounds ==
    ClusDone =>
        /\ AllWithinEps =>
              \A i \in 1..ClusterRounds :
                  clus_result[i] = IF clus_args.min_samples <= ClusterRounds
                                   THEN 0 ELSE Noise
        /\ EpsNearZero =>
              \A i \in 1..ClusterRounds :
                  /\ clus_result[i] = Noise
                        <=> Cardinality(Copies(i)) < clus_args.min_samples
                  /\ clus_result[i] # Noise =>
                        \A j \in 1..ClusterRounds :
                            clus_result[j] = clus_result[i] <=> j \in Copies(i)

\* eps near zero, different features in the table, and both noise rounds
\* and clustered rounds in the result
C18_Witness ==
    /\ ClusDone
    /\ EpsNearZero
    /\ ~AllWithinEps
    /\ \E i, j \in 1..ClusterRounds : clus_result[i] = Noise /\ clus_result[j] >= 0

(***************************************************************************)
(* Cluster analysis: claims                                                *)
(***************************************************************************)
AnaDone == ana_pc = "done"

\* The table has no round for the requested side: it is empty, or its side
\* column has values and none is the requested side. (A table whose side
\* column is empty throughout is a map-wide table, whose rounds are rounds
\* of both sides.)
NoRoundForSide ==
    \/ Len(ana_args.rounds_df) = 0
    \/ /\ \E k \in 1..Len(ana_args.rounds_df) : ana_args.rounds_df[k].side # NA
       /\ \A k \in 1..Len(ana_args.rounds_df) :
              ana_args.rounds_df[k].side # ana_args.side

\* C19: when the round table has no round for the requested side,
\* analyze_strategy_clusters returns an error entry and no cluster
\* statistics, not an empty success.
C19_ErrorWhenNoRoundForSide ==
    (AnaDone /\ NoRoundForSide) =>
        /\ analysis.error # "none"
        /\ analysis.strategies = <<>>
        /\ analysis.unclustered = <<>>

\* a table with a strategy_cluster column and rounds, none of them of the
\* requested side, was analysed
C19_Witness ==
    /\ AnaDone
    /\ ana_args.has_cluster
    /\ Len(ana_args.rounds_df) > 0
    /\ NoRoundForSide
    /\ analysis.error = "No rounds found"

\* the rounds of the analysed side with label id
RoundsOfCluster(id) ==
    SelectSeq(SideRounds(ana_args), LAMBDA r : r.strategy_cluster = id)

\* C20: a round without a bomb plant counts in its cluster's frequency, has
\* no entry in the bombsite distribution, and does not enter the
\* percentages of the planted sites: a site's percentage is its count
\* over the cluster's rounds with a plant.
C20_NoPlantOutsidePercentages ==
    (AnaDone /\ analysis.error = "none") =>
        \A id \in DOMAIN analysis.strategies :
            LET entry == analysis.strategies[id]
                planted == CountWhere(RoundsOfCluster(id),
                                      LAMBDA r : r.bombsite # "not_planted")
            IN  /\ entry.frequency = Len(RoundsOfCluster(id))
                /\ "not_planted" \notin DOMAIN entry.bombsite_distribution
                /\ \A site \in DOMAIN entry.bombsite_distribution :
                      LET d == entry.bombsite_distribution[site]
                      IN  d.percentage.num * planted
                              = d.count * 100 * d.percentage.den

(***************************************************************************)
(* Bombsite hits: claims                                                   *)
(***************************************************************************)
HitsDone == hits_pc = "done"

\* the rounds there are to analyse: in team-specific mode (the side column
\* has data) the rounds the team played as T, in general mode every round
RoundsToAnalyse ==
    {k \in 1..Len(hits_args) :
        (\E j \in 1..Len(hits_args) : hits_args[j].side # NA)
            => hits_args[k].side = "T"}

\* C21: on a non-empty round table analyze_bombsite_hits returns an error
\* exactly when there is no round to analyse; otherwise total_t_rounds is
\* the number of rounds to analyse, is positive, and t_wins + t_losses
\* equals it.
C21_SucceedsIffRoundToAnalyse ==
    (HitsDone /\ Len(hits_args) > 0) =>
        /\ hits_result.error # "none" <=> RoundsToAnalyse = {}
        /\ RoundsToAnalyse # {} =>
              /\ hits_result.total_t_rounds > 0
              /\ hits_result.total_t_rounds = Cardinality(RoundsToAnalyse)
              /\ hits_result.t_wins + hits_result.t_losses
                     = hits_result.total_t_rounds
              /\ hits_result.t_wins
                     = Cardinality({k \in RoundsToAnalyse : hits_args[k].winner = "T"})

\* a team-specific table with T rounds and other rounds was analysed
C21_Witness ==
    /\ HitsDone
    /\ hits_result.error = "none"
    /\ hits_result.analysis_mode = "team_specific"
    /\ hits_result.total_t_rounds < Len(hits_args)
    /\ hits_result.t_wins > 0
    /\ hits_result.t_losses > 0

(***************************************************************************)
(* Batch processing: claims                                                *)
(***************************************************************************)
ProcDone == proc_pc = "done"

Returned == ProcDone /\ consolidated.status = "returned"

Demos == 1..Len(job.demos)

DecodeFailed(i) == job.demos[i].outcome \in {"raised", "broken"}

\* the entries of errors for demo i
ErrorsOf(i) == SelectSeq(consolidated.errors, LAMBDA e : e.file = i)

\* demo i has rows in a consolidated table
HasRows(i) == \E tbl \in AllTables : i \in Range(consolidated[tbl])

\* every table demo i produced is in the consolidated data
AllRowsKept(i) ==
    /\ i \in Range(consolidated.processed)
    /\ \A tbl \in job.demos[i].tables : i \in Range(consolidated[tbl])

\* decoding or extraction of demo i failed: the worker caught an exception
\* of the decoder, the future raised, or an extractor failed and returned
\* None for its table
ExtractionFailed(i) ==
    DecodeFailed(i) \/ job.demos[i].tables # AllTables

\* C22 (as claimed): a match whose decoding or extraction fails has an
\* entry in errors and contributes no rows; the batch returns, and every
\* other decoded match that is not rejected for its map has all its rows
\* in the consolidated tables.
C22_FailedMatchIsolated ==
    (ProcDone /\ Len(job.demos) > 0) =>
        /\ consolidated.status = "returned"
        /\ \A i \in Demos :
              IF ExtractionFailed(i)
              THEN /\ ErrorsOf(i) # <<>>
                   /\ ~HasRows(i)
                   /\ i \notin Range(consolidated.processed)
              ELSE (~job.call.validate_map
                        \/ job.demos[i].map = consolidated.target_map)
                      => AllRowsKept(i)

\* the matches being decoded
Running == {i \in DOMAIN pool : pool[i] = "running"}

\* C23 (as claimed): at no time are more than 2 matches being decoded.
C23_AtMostTwoDecoding ==
    Cardinality(Running) <= 2

\* C24: a result is appended to results only for a demo whose worker has
\* finished, and the aggregation runs only when every demo's result has
\* been taken from a finished worker.
C24_ResultsAfterCompletion ==
    [][/\ results' # results =>
              \E i \in DOMAIN pool :
                  /\ pool[i] = "finished"
                  /\ results' = Append(results, ResultOf(i))
       /\ (consolidated' # consolidated /\ Len(job.demos) > 0) =>
              /\ \A i \in DOMAIN pool : pool[i] = "collected"
              /\ Len(results) = Len(job.demos)]_vars

\* a result has been taken while another worker is still decoding
C24_Witness ==
    /\ proc_pc = "pool"
    /\ \E i, j \in DOMAIN pool : pool[i] = "collected" /\ pool[j] = "running"
    /\ Len(results) > 0

\* the result for the results listed in the sorted order of the demo files
SortedOrderResult ==
    Consolidated([i \in Demos |-> ResultOf(i)], job.call, Len(job.demos))

\* C25 (as claimed): with validate_map on and no target_map given, the
\* target map, the matches kept and the matches rejected for their map are
\* those of the sorted order of the demo files, whatever the order in
\* which the workers completed.
C25_SameSplitForEveryOrder ==
    (Returned /\ job.call.validate_map /\ job.call.target_map = NoMap) =>
        /\ consolidated.target_map = SortedOrderResult.target_map
        /\ Range(consolidated.processed) = Range(SortedOrderResult.processed)
        /\ Range(consolidated.errors) = Range(SortedOrderResult.errors)

\* the decoded matches are not all from the same map
MixedMaps ==
    \E i, j \in Demos :
        /\ job.demos[i].outcome = "ok"
        /\ job.demos[j].outcome = "ok"
        /\ job.demos[i].map # job.demos[j].map

\* C26 (as claimed): when the decoded matches are not all from the same
\* map, then with validate_map every match of another map than the target
\* is rejected with an error and all the others are kept, and without
\* validate_map the batch is aborted.
C26_RejectOrAbort ==
    (ProcDone /\ MixedMaps) =>
        IF job.call.validate_map
        THEN /\ consolidated.status = "returned"
             /\ \A i \in Demos :
                   job.demos[i].outcome = "ok" =>
                       IF job.demos[i].map = consolidated.target_map
                       THEN AllRowsKept(i)
                       ELSE /\ ErrorsOf(i) = <<[file |-> i, kind |-> "mismatch"]>>
                            /\ ~HasRows(i)
        ELSE consolidated.status = "raised"

\* C29: every demo file is either among the processed demos or has exactly
\* one entry in errors, and processed_demos + failed_demos = total_demos.
C29_EveryDemoAccountedOnce ==
    Returned =>
        /\ consolidated.summary.total_demos = Len(job.demos)
        /\ consolidated.summary.processed_demos + consolidated.summary.failed_demos
               = consolidated.summary.total_demos
        /\ \A i \in Demos :
              Len(SelectSeq(consolidated.processed, LAMBDA f : f = i))
                  + Len(ErrorsOf(i)) = 1

\* a batch with a processed match, a decode failure and a map mismatch
C29_Witness ==
    /\ Returned
    /\ consolidated.summary.processed_demos > 0
    /\ \E e, f \in Range(consolidated.errors) :
          e.kind = "error" /\ f.kind = "mismatch"


(***************************************************************************)
(* Side statistics: claims                                                 *)
(***************************************************************************)
StatsDone == stats_pc = "done"

\* the events made by the side's players in a round of their own match that
\* the team played on that side
OwnSideEvents(events, side_field) ==
    {k \in 1..Len(events.rows) :
        /\ events.rows[k][side_field] = batch.side
        /\ \E i \in 1..Len(batch.rounds) :
              /\ batch.rounds[i].match_file = events.rows[k].match_file
              /\ batch.rounds[i].round_num = events.rows[k].round_num
              /\ batch.rounds[i].side = batch.side}

\* C30 (as claimed): analyze_t_side and analyze_ct_side count every kill and
\* utility event at most once: the totals they report for a side are the
\* numbers of kills and of utility events made by that side's players in
\* rounds the team played on that side in the same match, also when the
\* tables hold several matches that share round numbers.
C30_EventsCountedOnce ==
    (StatsDone /\ side_stats.status = "ok") =>
        /\ side_stats.kills = Cardinality(OwnSideEvents(batch.kills, "attacker_side"))
        /\ side_stats.utility = Cardinality(OwnSideEvents(batch.utility, "thrower_side"))

====
